---------------------------- MODULE Spec2Model ----------------------------
(***************************************************************************)
(* A model of the session Store of go-session-handler (package state,      *)
(* src/state/store.go lines 1-305, with src/state/cache.go and             *)
(* src/encoding/encoding.go).                                              *)
(*                                                                         *)
(* Text (Go string) and binary ([]byte) values are sequences of octets     *)
(* 0..255; a string is the sequence of its ASCII codes.  The payload       *)
(* encoding (msgpack, then base64) is modelled at the octet level.         *)
(***************************************************************************)
EXTENDS Integers, Sequences, FiniteSets, TLC

(***************************************************************************)
(* Program constants (src/state/store.go:14-19).                           *)
(***************************************************************************)
idOctets == 7 * 3
signatureStart == (idOctets * 4) \div 3
signatureLength == 27
cookieValueLength == signatureStart + signatureLength

(***************************************************************************)
(* Bounds of the model.                                                    *)
(***************************************************************************)
\* number of distinct octet strings the random source can deliver
NumIds == 3
\* the first instant of the model's clock, in epoch seconds
Epoch == 1700000000
\* number of seconds the model's clock can advance
MaxTicks == 2
\* number of steps (calls on the Store, new requests, clock ticks) of a run
MaxSteps == 2
\* number of steps of a run that follows one session from request to request
MaxSessionSteps == 3

(***************************************************************************)
(* Sequences of octets.                                                    *)
(***************************************************************************)
Rep(c, n) == [i \in 1..n |-> c]

Take(s, n) == SubSeq(s, 1, n)

Drop(s, n) == SubSeq(s, n + 1, Len(s))

RECURSIVE SumSeq(_)
SumSeq(s) == IF s = <<>> THEN 0 ELSE Head(s) + SumSeq(Tail(s))

(***************************************************************************)
(* encoding.EncodeBase64 / encoding.DecodeBase64: base64.StdEncoding, the  *)
(* standard alphabet with '=' padding.                                     *)
(***************************************************************************)
PadChar == 61

B64Char(i) ==
    IF i < 26 THEN 65 + i
    ELSE IF i < 52 THEN 97 + (i - 26)
    ELSE IF i < 62 THEN 48 + (i - 52)
    ELSE IF i = 62 THEN 43 ELSE 47

IsB64Char(c) ==
    \/ c \in 65..90
    \/ c \in 97..122
    \/ c \in 48..57
    \/ c = 43
    \/ c = 47

B64Index(c) ==
    IF c \in 65..90 THEN c - 65
    ELSE IF c \in 97..122 THEN c - 97 + 26
    ELSE IF c \in 48..57 THEN c - 48 + 52
    ELSE IF c = 43 THEN 62 ELSE 63

RECURSIVE EncodeBase64(_)
EncodeBase64(bytes) ==
    IF Len(bytes) = 0 THEN <<>>
    ELSE IF Len(bytes) = 1 THEN
        << B64Char(bytes[1] \div 4), B64Char((bytes[1] % 4) * 16),
           PadChar, PadChar >>
    ELSE IF Len(bytes) = 2 THEN
        << B64Char(bytes[1] \div 4),
           B64Char((bytes[1] % 4) * 16 + bytes[2] \div 16),
           B64Char((bytes[2] % 16) * 4), PadChar >>
    ELSE
        << B64Char(bytes[1] \div 4),
           B64Char((bytes[1] % 4) * 16 + bytes[2] \div 16),
           B64Char((bytes[2] % 16) * 4 + bytes[3] \div 64),
           B64Char(bytes[3] % 64) >> \o EncodeBase64(Drop(bytes, 3))

\* the octets of one quantum of four characters; the last quantum may end
\* in one or two padding characters
QuantumOk(q, last) ==
    /\ IsB64Char(q[1])
    /\ IsB64Char(q[2])
    /\ \/ IsB64Char(q[3]) /\ IsB64Char(q[4])
       \/ last /\ IsB64Char(q[3]) /\ q[4] = PadChar
       \/ last /\ q[3] = PadChar /\ q[4] = PadChar

QuantumBytes(q) ==
    LET a == B64Index(q[1])
        b == B64Index(q[2])
        b1 == a * 4 + b \div 16
    IN  IF q[3] = PadChar THEN << b1 >>
        ELSE LET c == B64Index(q[3])
                 b2 == (b % 16) * 16 + c \div 4
             IN  IF q[4] = PadChar THEN << b1, b2 >>
                 ELSE << b1, b2, (c % 4) * 64 + B64Index(q[4]) >>

RECURSIVE B64Quanta(_)
B64Quanta(t) ==
    IF Len(t) = 0 THEN [err |-> "", val |-> <<>>]
    ELSE IF Len(t) < 4 THEN [err |-> "illegal base64 data", val |-> <<>>]
    ELSE LET q == Take(t, 4)
             last == Len(t) = 4
         IN  IF ~QuantumOk(q, last)
             THEN [err |-> "illegal base64 data", val |-> <<>>]
             ELSE LET rest == B64Quanta(Drop(t, 4))
                  IN  [err |-> rest.err, val |-> QuantumBytes(q) \o rest.val]

\* DecodeString skips carriage returns and line feeds
DecodeBase64(base64Encoded) ==
    B64Quanta(SelectSeq(base64Encoded, LAMBDA c : c # 10 /\ c # 13))


(***************************************************************************)
(* Payload values.  A value of Go's interface{} is a record [t, v]: t is   *)
(* the dynamic type and v the content (an integer, the octets of a string, *)
(* or, for a nested map[string]interface{}, a function from keys to        *)
(* values).  A map[string]interface{} is [isNil, m]: a nil map has no      *)
(* entries and differs from an empty, allocated one.                       *)
(***************************************************************************)
NilValue == [t |-> "nil", v |-> 0]

Str(s) == [t |-> "string", v |-> s]

Uint(w, n) == [t |-> w, v |-> n]

EmptyEntries == [k \in {} |-> NilValue]

NilMap == [isNil |-> TRUE, m |-> EmptyEntries]

MakeMap(entries) == [isNil |-> FALSE, m |-> entries]

\* len(m) of Go: 0 for a nil map
MapLen(d) == Cardinality(DOMAIN d.m)

\* m[key] of Go on a map[string]interface{}: nil when the key is absent
MapGet(d, key) == IF key \in DOMAIN d.m THEN d.m[key] ELSE NilValue

\* m[key] = value of Go on a non-nil map
MapPut(d, key, value) ==
    MakeMap([k \in (DOMAIN d.m) \cup {key} |->
                IF k = key THEN value ELSE d.m[k]])

\* the keys the Store itself reads and writes (src/state/store.go:183,268)
KeyExpires == << 101, 120, 112, 105, 114, 101, 115 >>
KeyLastAccess == << 108, 97, 115, 116, 95, 97, 99, 99, 101, 115, 115 >>

(***************************************************************************)
(* encoding.EncodeMsgPack (src/encoding/encoding.go:36-46).  The encoder   *)
(* is that of msgpack v4 (src/unnamed/part_000:51) as NewEncoder returns   *)
(* it: an integer is written in the form of its Go type, whatever its      *)
(* value.  A map is walked in Go's unspecified iteration order: the result *)
(* is one of a set of octet strings.                                       *)
(***************************************************************************)
RECURSIVE BigEndian(_, _)
BigEndian(n, width) ==
    IF width = 0 THEN <<>>
    ELSE BigEndian(n \div 256, width - 1) \o << n % 256 >>

EncodeUint(n) ==
    IF n <= 127 THEN << n >>
    ELSE IF n <= 255 THEN << 204 >> \o BigEndian(n, 1)
    ELSE IF n <= 65535 THEN << 205 >> \o BigEndian(n, 2)
    ELSE << 206 >> \o BigEndian(n, 4)

EncodeInt(n) ==
    IF n >= 0 THEN EncodeUint(n)
    ELSE IF n >= -32 THEN << 256 + n >>
    ELSE << 208, 256 + n >>

\* n in width octets, two's complement; a negative n of the model is above
\* -2^23
TwosComplement(n, width) ==
    IF n >= 0 THEN BigEndian(n, width)
    ELSE IF width = 1 THEN << 256 + n >>
    ELSE IF width = 2 THEN BigEndian(65536 + n, 2)
    ELSE Rep(255, width - 3) \o BigEndian(16777216 + n, 3)

\* the wire code and the width in octets of an integer type
NumberCode(t) ==
    CASE t = "uint8" -> 204 [] t = "uint16" -> 205 [] t = "uint32" -> 206
      [] t = "uint64" -> 207 [] t = "int8" -> 208 [] t = "int16" -> 209
      [] t = "int32" -> 210 [] t = "int64" -> 211

NumberWidth(t) ==
    CASE t \in {"uint8", "int8"} -> 1 [] t \in {"uint16", "int16"} -> 2
      [] t \in {"uint32", "int32"} -> 4 [] t \in {"uint64", "int64"} -> 8

\* the encoder with UseCompactEncoding: the shortest form for the value
EncodeNumberCompact(t, n) == IF n >= 0 THEN EncodeUint(n) ELSE EncodeInt(n)

\* EncodeUint8 .. EncodeInt64: the code of the type, then the value
EncodeNumber(t, n) == << NumberCode(t) >> \o TwosComplement(n, NumberWidth(t))

EncodeString(s) ==
    IF Len(s) <= 31 THEN << 160 + Len(s) >> \o s
    ELSE << 217, Len(s) >> \o s

Orders(keys) ==
    { o \in [1..Cardinality(keys) -> keys] :
        \A i, j \in 1..Cardinality(keys) : i # j => o[i] # o[j] }

RECURSIVE EncodeValue(_)
RECURSIVE EncodeEntries(_, _)
EncodeEntries(m, order) ==
    IF order = <<>> THEN { <<>> }
    ELSE { EncodeString(Head(order)) \o ev \o rest :
             ev \in EncodeValue(m[Head(order)]),
             rest \in EncodeEntries(m, Tail(order)) }

EncodeValue(val) ==
    CASE val.t = "nil" -> { << 192 >> }
      [] val.t = "string" -> { EncodeString(val.v) }
      [] val.t \in {"uint8", "uint16", "uint32", "uint64",
                    "int8", "int16", "int32", "int64"} ->
            { EncodeNumber(val.t, val.v) }
      [] val.t = "map" ->
            UNION { { << 128 + Cardinality(DOMAIN val.v) >> \o body :
                        body \in EncodeEntries(val.v, o) } :
                    o \in Orders(DOMAIN val.v) }
      [] val.t = "chan" -> {}

\* every octet string enc.Encode(data) can write without an error: none when
\* data holds a value of a type the encoder does not support (a channel)
EncodeMap(data) ==
    IF data.isNil THEN { << 192 >> }
    ELSE EncodeValue([t |-> "map", v |-> data.m])

ErrEncode == "msgpack: Encode(unsupported chan int)"

\* every [err, val] EncodeMsgPack(data) can return
EncodeMsgPack(data) ==
    IF EncodeMap(data) = {} THEN { [err |-> ErrEncode, val |-> <<>>] }
    ELSE { [err |-> "", val |-> b] : b \in EncodeMap(data) }

(***************************************************************************)
(* encoding.DecodeMsgPack (src/encoding/encoding.go:24-31).  A decoding    *)
(* step returns [err, val, rest].  An integer decodes to the Go type of    *)
(* its wire form (a fixed number to int8), a string-keyed map to           *)
(* map[string]interface{}.  Only one value is read: octets after it are    *)
(* left unread.                                                            *)
(***************************************************************************)
RECURSIVE FromBigEndian(_)
FromBigEndian(bs) ==
    IF bs = <<>> THEN 0
    ELSE FromBigEndian(Take(bs, Len(bs) - 1)) * 256 + bs[Len(bs)]

Fail(e) == [err |-> e, val |-> NilValue, rest |-> <<>>]

DecodeUintN(tag, bs, width) ==
    IF Len(bs) < width THEN Fail(IF bs = <<>> THEN "EOF" ELSE "unexpected EOF")
    \* the model's integers are below 2^31: a wider value is out of its range
    ELSE IF SumSeq(Take(bs, width - 4)) # 0 \/ (width >= 4 /\ bs[width - 3] > 127)
    THEN Fail("out of model range")
    ELSE [err |-> "", val |-> Uint(tag, FromBigEndian(Take(bs, width))),
          rest |-> Drop(bs, width)]

\* a negative value of the model is above -2^23, a positive one below 2^31
DecodeIntN(tag, bs, width) ==
    IF Len(bs) < width THEN Fail(IF bs = <<>> THEN "EOF" ELSE "unexpected EOF")
    ELSE LET b == Take(bs, width)
             u == FromBigEndian(b)
         IN  IF width = 1
             THEN [err |-> "", val |-> Uint(tag, IF u > 127 THEN u - 256 ELSE u),
                   rest |-> Drop(bs, 1)]
             ELSE IF width = 2
             THEN [err |-> "",
                   val |-> Uint(tag, IF u > 32767 THEN u - 65536 ELSE u),
                   rest |-> Drop(bs, 2)]
             ELSE IF b[1] <= 127
             THEN DecodeUintN(tag, bs, width)
             ELSE IF \E k \in 1..(width - 3) : b[k] # 255
             THEN Fail("out of model range")
             ELSE IF b[width - 2] <= 127 THEN Fail("out of model range")
             ELSE [err |-> "",
                   val |-> Uint(tag, FromBigEndian(Drop(b, width - 3))
                                       - 16777216),
                   rest |-> Drop(bs, width)]

DecodeStringN(bs, n) ==
    IF Len(bs) < n THEN Fail(IF bs = <<>> THEN "EOF" ELSE "unexpected EOF")
    ELSE [err |-> "", val |-> Str(Take(bs, n)), rest |-> Drop(bs, n)]

\* Decoder.DecodeString: the key of a map entry
DecodeString(bs) ==
    IF bs = <<>> THEN Fail("EOF")
    ELSE LET c == Head(bs)
             r == Tail(bs)
         IN  IF c = 192 THEN [err |-> "", val |-> Str(<<>>), rest |-> r]
             ELSE IF c \in 160..191 THEN DecodeStringN(r, c - 160)
             ELSE IF c = 217 THEN
                 IF r = <<>> THEN Fail("EOF")
                 ELSE DecodeStringN(Tail(r), Head(r))
             ELSE Fail("msgpack: invalid code decoding bytes length")

RECURSIVE DecodeInterface(_)
RECURSIVE DecodeMapEntries(_, _, _)
\* the entries decoded so far are kept when a later one fails
DecodeMapEntries(bs, n, acc) ==
    IF n = 0 THEN [err |-> "", val |-> acc, rest |-> bs]
    ELSE LET k == DecodeString(bs)
         IN  IF k.err # "" THEN [err |-> k.err, val |-> acc, rest |-> <<>>]
             ELSE LET e == DecodeInterface(k.rest)
                  IN  IF e.err # ""
                      THEN [err |-> e.err, val |-> acc, rest |-> <<>>]
                      ELSE DecodeMapEntries(e.rest, n - 1,
                                            MapPut(acc, k.val.v, e.val))

DecodeInterface(bs) ==
    IF bs = <<>> THEN Fail("EOF")
    ELSE LET c == Head(bs)
             r == Tail(bs)
         IN  IF c <= 127 THEN [err |-> "", val |-> Uint("int8", c), rest |-> r]
             ELSE IF c >= 224
                  THEN [err |-> "", val |-> Uint("int8", c - 256), rest |-> r]
             ELSE IF c \in 128..143 THEN
                 LET es == DecodeMapEntries(r, c - 128, MakeMap(EmptyEntries))
                 IN  [err |-> es.err,
                      val |-> [t |-> "map", v |-> es.val.m],
                      rest |-> es.rest]
             ELSE IF c \in 160..191 THEN DecodeStringN(r, c - 160)
             ELSE IF c = 217 THEN
                 IF r = <<>> THEN Fail("EOF")
                 ELSE DecodeStringN(Tail(r), Head(r))
             ELSE IF c = 192 THEN [err |-> "", val |-> NilValue, rest |-> r]
             ELSE IF c = 204 THEN DecodeUintN("uint8", r, 1)
             ELSE IF c = 205 THEN DecodeUintN("uint16", r, 2)
             ELSE IF c = 206 THEN DecodeUintN("uint32", r, 4)
             ELSE IF c = 207 THEN DecodeUintN("uint64", r, 8)
             ELSE IF c = 208 THEN DecodeIntN("int8", r, 1)
             ELSE IF c = 209 THEN DecodeIntN("int16", r, 2)
             ELSE IF c = 210 THEN DecodeIntN("int32", r, 4)
             ELSE IF c = 211 THEN DecodeIntN("int64", r, 8)
             ELSE Fail("msgpack: unknown code decoding interface{}")

\* [err, val]: val is the map decoded, also partly, when err is set
DecodeMsgPack(msgpackEncoded) ==
    IF msgpackEncoded = <<>> THEN [err |-> "EOF", val |-> NilMap]
    ELSE LET c == Head(msgpackEncoded)
         IN  IF c = 192 THEN [err |-> "", val |-> NilMap]
             ELSE IF c \in 128..143 THEN
                 LET es == DecodeMapEntries(Tail(msgpackEncoded), c - 128,
                                            MakeMap(EmptyEntries))
                 IN  [err |-> es.err, val |-> es.val]
             ELSE [err |-> "msgpack: invalid code decoding map length",
                   val |-> NilMap]


(***************************************************************************)
(* encoding.GenerateSha1Sum (src/encoding/encoding.go:49-51).  SHA-1 is    *)
(* outside the repository; what the Store uses of it is that the digest    *)
(* is a function of its input and has 20 octets.  The digest here is a     *)
(* stand-in with those two properties (a polynomial checksum spread over   *)
(* 20 octets), not SHA-1.                                                  *)
(***************************************************************************)
RECURSIVE Checksum(_, _)
Checksum(bytes, h) ==
    IF bytes = <<>> THEN h
    ELSE Checksum(Tail(bytes), (h * 33 + Head(bytes) + 1) % 65521)

GenerateSha1Sum(sum) ==
    LET h == Checksum(sum, 5381)
    IN  [i \in 1..20 |-> ((h + i) * (7 * i + 13) + Len(sum)) % 256]

(***************************************************************************)
(* strconv.ParseUint(s, 0, 64) as setupExpiration calls it: base 0 takes   *)
(* the base from the prefix (0x, 0b, 0o, a leading 0 for octal, decimal    *)
(* otherwise).  Returns [err, val].                                        *)
(***************************************************************************)
ErrSyntax == "strconv.ParseUint: invalid syntax"

DigitValue(c) ==
    IF c \in 48..57 THEN c - 48
    ELSE IF c \in 97..102 THEN c - 97 + 10
    ELSE IF c \in 65..70 THEN c - 65 + 10
    ELSE 99

RECURSIVE ParseDigits(_, _, _)
ParseDigits(digits, base, acc) ==
    IF digits = <<>> THEN [err |-> "", val |-> acc]
    ELSE IF DigitValue(Head(digits)) >= base THEN [err |-> ErrSyntax, val |-> 0]
    ELSE ParseDigits(Tail(digits), base, acc * base + DigitValue(Head(digits)))

ErrRange == "strconv.ParseUint: value out of range"

\* A uint64 is held as the integer nearest 0 that is congruent to it modulo
\* 2^64: 2^64 - c, for a small c, is held as -c.  The sum of two such
\* integers is then their sum modulo 2^64, and the order of two of them is
\* the order of the uint64s when a negative integer is read as the larger.
LeqUint64(a, b) == IF (a < 0) = (b < 0) THEN a <= b ELSE a >= 0

\* the hexadecimal digits of a uint64
Uint64Digits == 16

\* the digits of the integers held: 16^7 on either side of 0
SmallDigits == 7

RECURSIVE StripZeros(_)
StripZeros(digits) ==
    IF digits # <<>> /\ Head(digits) = 48 THEN StripZeros(Tail(digits))
    ELSE digits

\* a hexadecimal body: more than sixteen digits are out of range, and
\* sixteen digits that begin with f's are a number just under 2^64
ParseHex(body) ==
    LET digits == StripZeros(body)
        padded == Rep(48, Uint64Digits - Len(digits)) \o digits
        high == Take(padded, Uint64Digits - SmallDigits)
        low == ParseDigits(Drop(padded, Uint64Digits - SmallDigits), 16, 0)
    IN  IF \E i \in DOMAIN body : DigitValue(body[i]) >= 16
        THEN [err |-> ErrSyntax, val |-> 0]
        ELSE IF Len(digits) > Uint64Digits THEN [err |-> ErrRange, val |-> -1]
        ELSE IF Len(digits) <= SmallDigits THEN ParseDigits(digits, 16, 0)
        ELSE IF \A i \in DOMAIN high : DigitValue(high[i]) = 15
             THEN [err |-> "", val |-> low.val - 16^SmallDigits]
        ELSE [err |-> "strconv.ParseUint: value not held", val |-> 0]

ParseUint(s) ==
    IF s = <<>> THEN [err |-> ErrSyntax, val |-> 0]
    ELSE IF Len(s) > 1 /\ s[1] = 48 THEN
        LET body == IF s[2] \in {120, 88, 98, 66, 111, 79}
                    THEN Drop(s, 2) ELSE Drop(s, 1)
            base == IF s[2] \in {120, 88} THEN 16
                    ELSE IF s[2] \in {98, 66} THEN 2 ELSE 8
        IN  IF body = <<>> THEN [err |-> ErrSyntax, val |-> 0]
            ELSE IF base = 16 THEN ParseHex(body)
            ELSE ParseDigits(body, base, 0)
    ELSE ParseDigits(s, 10, 0)

(***************************************************************************)
(* The world one call of a Store method runs in: the Store's fields (ID,   *)
(* Expires, Data), its config, the cache behind its connection, the clock, *)
(* and calls, the commands sent over the connection so far.  A method is   *)
(* an operator from a world (and its arguments) to the SET of its possible *)
(* results [w, err, ...]: one per answer of the cache, of the random       *)
(* source and of the clock.  err = "" is Go's nil error.                   *)
(***************************************************************************)
\* errors of the connection other than a missing key
IOErrors == { "dial tcp: connection refused", "i/o timeout" }

\* the error of Get for a key that is not in the cache (redis.Nil)
RedisNil == "redis: nil"

ErrPanic == "panic"
ErrCookieLength == "Cookie signature is less than the desired cookie length"
ErrNoData == "No session data to store"
ErrExpired == "Store has expired"
ErrRand == "crypto/rand: read failed"

Ret(w, err) == [w |-> w, err |-> err]

\* a command sent over the connection, with the error it answered; value is
\* what Set was given and what Get returned
Sent(w, op, key, value, err) ==
    [w EXCEPT !.calls = Append(@, [op |-> op, key |-> key, value |-> value,
                                   expiration |-> 0, err |-> err])]

(***************************************************************************)
(* Cache (src/state/cache.go:44-58).                                       *)
(***************************************************************************)
\* a Set command, with the expiration it carried and the error it answered
SentSet(w, key, value, expiration, err) ==
    [w EXCEPT !.calls = Append(@, [op |-> "Set", key |-> key, value |-> value,
                                   expiration |-> expiration, err |-> err])]

\* Set(key, value, expiration)
setSessionData(w, key, value, expiration) ==
    { Ret([SentSet(w, key, value, expiration, "") EXCEPT !.cache =
              [k \in (DOMAIN w.cache) \cup {key} |->
                  IF k = key THEN value ELSE w.cache[k]]], "") }
    \cup { Ret(SentSet(w, key, value, expiration, e), e) : e \in IOErrors }

\* Get(key).Result(): [w, err, val]
getSessionData(w, key) ==
    { IF key \in DOMAIN w.cache
      THEN [w |-> Sent(w, "Get", key, w.cache[key], ""), err |-> "",
            val |-> w.cache[key]]
      ELSE [w |-> Sent(w, "Get", key, <<>>, RedisNil), err |-> RedisNil,
            val |-> <<>>] }
    \cup { [w |-> Sent(w, "Get", key, <<>>, e), err |-> e, val |-> <<>>] :
             e \in IOErrors }

\* Del(key).Result(): no error when the key is not there
deleteSessionData(w, key) ==
    { Ret([Sent(w, "Del", key, <<>>, "") EXCEPT !.cache =
              [k \in (DOMAIN w.cache) \ {key} |-> w.cache[k]]], "") }
    \cup { Ret(Sent(w, "Del", key, <<>>, e), e) : e \in IOErrors }

(***************************************************************************)
(* The clock and the random source.                                        *)
(***************************************************************************)
\* the last instant of the model's clock
MaxNow == Epoch + MaxTicks

\* time.Now().Unix(): the clock may have advanced by a second since it was
\* last read; [w, now]
TimeNow(w) ==
    IF w.now < MaxNow
    THEN { [w |-> w, now |-> w.now],
           [w |-> [w EXCEPT !.now = @ + 1], now |-> w.now + 1] }
    ELSE { [w |-> w, now |-> w.now] }

\* what rand.Read can fill the buffer with.  Of 2^168 octet strings the
\* source is taken never to repeat one that is in use: the ID the Store
\* holds or a key of the cache.
RandomOctets == { Rep(k, idOctets) : k \in 1..NumIds }

FreshOctets(w) ==
    { o \in RandomOctets :
        /\ EncodeBase64(o) # w.ID
        /\ EncodeBase64(o) \notin DOMAIN w.cache }

(***************************************************************************)
(* Store (src/state/store.go:116-209).                                     *)
(***************************************************************************)
\* id is Go's *string: [isNil, s]
NilId == [isNil |-> TRUE, s |-> <<>>]

IdOf(s) == [isNil |-> FALSE, s |-> s]

\* Delete without lines 123-125: always the Store's own ID
DeleteCurrent(w, id) == deleteSessionData(w, w.ID)

\* Delete that also drops the loaded payload once the record is deleted
DeleteForgetting(w, id) ==
    LET sessionID == IF ~id.isNil /\ Len(id.s) > 0 THEN id.s ELSE w.ID
    IN  { IF r.err = "" THEN Ret([r.w EXCEPT !.Data = NilMap], "") ELSE r :
            r \in deleteSessionData(w, sessionID) }

Delete(w, id) ==
    LET sessionID == IF ~id.isNil /\ Len(id.s) > 0 THEN id.s ELSE w.ID
    IN  deleteSessionData(w, sessionID)

\* regenerateID reading one octet less than idOctets
regenerateIDShort(w) ==
    { Ret(Sent(w, "Rand", <<>>, <<>>, ErrRand), ErrRand) }
    \cup { Ret([Sent(w, "Rand", <<>>, EncodeBase64(Tail(o)), "")
                  EXCEPT !.ID = EncodeBase64(Tail(o))], "") :
              o \in FreshOctets(w) }

\* the read of the random source is logged beside the cache's commands
regenerateID(w) ==
    { Ret(Sent(w, "Rand", <<>>, <<>>, ErrRand), ErrRand) }
    \cup { Ret([Sent(w, "Rand", <<>>, EncodeBase64(o), "")
                  EXCEPT !.ID = EncodeBase64(o)], "") : o \in FreshOctets(w) }

\* Clear resetting the Store whatever the delete answered
ClearUnconditional(w) ==
    UNION { { Ret(r.w, d.err) :
                r \in regenerateID([d.w EXCEPT !.Data = NilMap]) } :
            d \in Delete(w, NilId) }

\* Clear without line 144: the ID is kept
ClearKeepingID(w) ==
    { IF d.err # "" THEN Ret(d.w, d.err)
      ELSE Ret([d.w EXCEPT !.Data = NilMap], "") :
        d \in Delete(w, NilId) }

\* regenerateID's error is dropped
Clear(w) ==
    UNION { IF d.err # "" THEN { Ret(d.w, d.err) }
            ELSE { Ret(r.w, "") :
                     r \in regenerateID([d.w EXCEPT !.Data = NilMap]) } :
            d \in Delete(w, NilId) }

generateSignature(w) ==
    LET sum == GenerateSha1Sum(w.ID \o w.config.CookieSecret)
        sig == EncodeBase64(sum)
    IN  Take(sig, signatureLength)

\* setupExpiration without line 183: the payload is not stamped
setupExpirationUnstamped(w) ==
    UNION { LET expirationPeriod == ParseUint(t.w.config.DefaultExpiration)
            IN  IF expirationPeriod.err # ""
                THEN { Ret(t.w, expirationPeriod.err) }
                ELSE { Ret([t.w EXCEPT
                              !.Expires = t.now + expirationPeriod.val], "") } :
            t \in TimeNow(w) }

setupExpiration(w) ==
    UNION { LET expirationPeriod == ParseUint(t.w.config.DefaultExpiration)
            IN  IF expirationPeriod.err # ""
                THEN { Ret(t.w, expirationPeriod.err) }
                ELSE LET w1 == [t.w EXCEPT
                                  !.Expires = t.now + expirationPeriod.val]
                     IN  { Ret(IF ~w1.Data.isNil
                               THEN [w1 EXCEPT !.Data =
                                       MapPut(@, KeyLastAccess,
                                              Uint("uint64", t.now))]
                               ELSE w1, "") } :
            t \in TimeNow(w) }

\* validateSession without lines 199-201: setupExpiration's error is dropped
validateSessionLenient(w) ==
    LET afterID == IF Len(w.ID) = 0 THEN regenerateID(w) ELSE { Ret(w, "") }
        afterExpires(r) ==
            IF r.err # "" THEN { r }
            ELSE IF r.w.Expires = 0
                 THEN { Ret(x.w, "") : x \in setupExpiration(r.w) }
            ELSE { r }
        afterData(r) ==
            IF r.err # "" THEN r
            ELSE IF r.w.Data.isNil THEN Ret(r.w, ErrNoData)
            ELSE r
    IN  { afterData(e) : e \in UNION { afterExpires(r) : r \in afterID } }

\* validateSession without the test of line 198: the expiry is always stamped
validateSessionRestamping(w) ==
    LET afterID == IF Len(w.ID) = 0 THEN regenerateID(w) ELSE { Ret(w, "") }
        afterExpires(r) ==
            IF r.err # "" THEN { r }
            ELSE setupExpiration(r.w)
        afterData(r) ==
            IF r.err # "" THEN r
            ELSE IF r.w.Data.isNil THEN Ret(r.w, ErrNoData)
            ELSE r
    IN  { afterData(e) : e \in UNION { afterExpires(r) : r \in afterID } }

validateSession(w) ==
    LET afterID == IF Len(w.ID) = 0 THEN regenerateID(w) ELSE { Ret(w, "") }
        afterExpires(r) ==
            IF r.err # "" THEN { r }
            ELSE IF r.w.Expires = 0 THEN setupExpiration(r.w)
            ELSE { r }
        afterData(r) ==
            IF r.err # "" THEN r
            ELSE IF r.w.Data.isNil THEN Ret(r.w, ErrNoData)
            ELSE r
    IN  { afterData(e) : e \in UNION { afterExpires(r) : r \in afterID } }


(***************************************************************************)
(* Store (src/state/store.go:213-305).                                     *)
(***************************************************************************)
\* Clear's own error is dropped
validateSessionID(w, sessionID) ==
    IF Len(sessionID) < cookieValueLength
    THEN { Ret(c.w, ErrCookieLength) : c \in Clear(w) }
    ELSE { Ret(w, "") }

\* extractAndValidateSessionIDParts splitting the cookie where the signature
\* would start if it had kept its padding character
extractAndValidateSessionIDPartsPadded(w, sessionID) ==
    LET w1 == [w EXCEPT !.ID = Take(sessionID, signatureStart - 1)]
        sig == Drop(sessionID, signatureStart - 1)
    IN  IF sig # generateSignature(w1)
        THEN { Ret(c.w, "") : c \in Clear(w1) }
        ELSE { Ret(w1, "") }

\* returns nothing: the caller cannot tell whether the signature matched
extractAndValidateSessionIDParts(w, sessionID) ==
    LET w1 == [w EXCEPT !.ID = Take(sessionID, signatureStart)]
        sig == Drop(sessionID, signatureStart)
    IN  IF sig # generateSignature(w1)
        THEN { Ret(c.w, "") : c \in Clear(w1) }
        ELSE { Ret(w1, "") }

\* getStoredSession without lines 241-243: the cache's error is dropped
getStoredSessionUnchecked(w) ==
    { [w |-> g.w, err |-> "", val |-> g.val] : g \in getSessionData(w, w.ID) }

\* [w, err, val]
getStoredSession(w) ==
    { IF g.err # "" THEN [w |-> g.w, err |-> g.err, val |-> <<>>] ELSE g :
        g \in getSessionData(w, w.ID) }

\* decodeSession returning what DecodeMsgPack returned beside its error
decodeSessionPartial(session) ==
    LET base64DecodedSession == DecodeBase64(session)
    IN  IF base64DecodedSession.err # ""
        THEN [err |-> base64DecodedSession.err, val |-> NilMap]
        ELSE DecodeMsgPack(base64DecodedSession.val)

\* [err, val]
decodeSession(session) ==
    LET base64DecodedSession == DecodeBase64(session)
    IN  IF base64DecodedSession.err # ""
        THEN [err |-> base64DecodedSession.err, val |-> NilMap]
        ELSE LET msgpackDecodedSession ==
                     DecodeMsgPack(base64DecodedSession.val)
             IN  IF msgpackDecodedSession.err # ""
                 THEN [err |-> msgpackDecodedSession.err, val |-> NilMap]
                 ELSE [err |-> "", val |-> msgpackDecodedSession.val]

\* validateExpiration without lines 270-272: an unset expiry is not stamped
validateExpirationUnstamped(w) ==
    LET expires == MapGet(w.Data, KeyExpires)
    IN  IF expires.t # "uint32" THEN { Ret(w, ErrPanic) }
        ELSE LET w1 == [w EXCEPT !.Expires = expires.v]
             IN  { IF LeqUint64(t.w.Expires, t.now)
                   THEN Ret([t.w EXCEPT !.Data = NilMap], ErrExpired)
                   ELSE Ret(t.w, "") :
                   t \in TimeNow(w1) }

\* s.Data["expires"].(uint32) panics unless the value is a uint32;
\* setupExpiration's error is dropped
validateExpiration(w) ==
    LET expires == MapGet(w.Data, KeyExpires)
    IN  IF expires.t # "uint32" THEN { Ret(w, ErrPanic) }
        ELSE LET w1 == [w EXCEPT !.Expires = expires.v]
                 stamped == IF w1.Expires = 0
                            THEN { r.w : r \in setupExpiration(w1) }
                            ELSE { w1 }
             IN  UNION { { IF LeqUint64(t.w.Expires, t.now)
                           THEN Ret([t.w EXCEPT !.Data = NilMap], ErrExpired)
                           ELSE Ret(t.w, "") :
                           t \in TimeNow(w2) } :
                         w2 \in stamped }

\* setSession with the time left to Expires as the record's time to live
setSessionExpiring(w, encodedData) ==
    setSessionData(w, w.ID, encodedData, w.Expires - w.now)

\* setSession that writes only where the cache holds no record: SETNX
setSessionIfAbsent(w, encodedData) ==
    IF w.ID \in DOMAIN w.cache
    THEN { Ret(SentSet(w, w.ID, encodedData, 0, ""), "") }
    ELSE setSessionData(w, w.ID, encodedData, 0)

setSession(w, encodedData) == setSessionData(w, w.ID, encodedData, 0)

\* every [err, val] encodeSessionData can return
encodeSessionData(w) ==
    { IF msgpackEncodedData.err # ""
      THEN [err |-> msgpackEncodedData.err, val |-> <<>>]
      ELSE [err |-> "", val |-> EncodeBase64(msgpackEncodedData.val)] :
        msgpackEncodedData \in EncodeMsgPack(w.Data) }

(***************************************************************************)
(* Store.Load and Store.Store (src/state/store.go:56-114).                 *)
(***************************************************************************)
LoadFetched(w, storedSession) ==
    LET d == decodeSession(storedSession)
        w1 == [w EXCEPT !.Data = d.val]
    IN  IF d.err # "" THEN { Ret(w1, d.err) }
        ELSE IF w1.Data.isNil THEN { Ret(c.w, "") : c \in Clear(w1) }
        ELSE validateExpiration(w1)

Load(w, sessionID) ==
    UNION { IF v.err # "" THEN { v }
            ELSE UNION { UNION { IF g.err # "" THEN { Ret(g.w, g.err) }
                                 ELSE LoadFetched(g.w, g.val) :
                                 g \in getStoredSession(x.w) } :
                         x \in extractAndValidateSessionIDParts(v.w, sessionID) } :
            v \in validateSessionID(w, sessionID) }

\* Store without lines 101-104: the encoder's error is not looked at
StoreUnchecked(w) ==
    UNION { IF v.err # "" THEN { v }
            ELSE UNION { setSession(v.w, e.val) :
                         e \in encodeSessionData(v.w) } :
            v \in validateSession(w) }

Store(w) ==
    UNION { IF v.err # "" THEN { v }
            ELSE UNION { IF e.err # "" THEN { Ret(v.w, e.err) }
                         ELSE setSession(v.w, e.val) :
                         e \in encodeSessionData(v.w) } :
            v \in validateSession(w) }


(***************************************************************************)
(* The inputs of the model: configurations, cookies, payloads a handler    *)
(* sets, and records other writers have left in the cache.                 *)
(***************************************************************************)
\* "hello", the COOKIE_SECRET of the tests
Secret == << 104, 101, 108, 108, 111 >>

\* "0xffffffffffffffff", the largest uint64
MaxExpiration == << 48, 120 >> \o Rep(102, Uint64Digits)

\* DEFAULT_EXPIRATION: "2", "0", the empty string of a missing setting,
\* "1h", which is no number, and the largest uint64
DefaultExpirations ==
    { << 50 >>, << 48 >>, <<>>, << 49, 104 >>, MaxExpiration }

PoolIds == { EncodeBase64(o) : o \in RandomOctets }

SeedId == EncodeBase64(Rep(1, idOctets))

\* the cookie value the middleware sets: ID followed by its signature
CookieFor(id, secret) ==
    id \o generateSignature([ID |-> id, config |-> [CookieSecret |-> secret]])

\* an ID that has no record in the cache at first
OtherId == EncodeBase64(Rep(2, idOctets))

ValidCookies == { CookieFor(id, Secret) : id \in { SeedId, OtherId } }

\* cookies of the right length whose signature is not the one of their ID:
\* an arbitrary signature, one made with another secret, and a valid cookie
\* with one more character
ForgedCookies ==
    { CookieFor(SeedId, << 119 >>),
      Append(CookieFor(SeedId, Secret), 61) }

ShortCookies == { <<>>, Rep(97, cookieValueLength - 1) }

Cookies == ValidCookies \cup ForgedCookies \cup ShortCookies

KeyK == << 107 >>

ValueV == Str(<< 118 >>)

\* a value the encoder does not support: make(chan int)
ValueC == [t |-> "chan", v |-> 0]

Payloads ==
    { NilMap,
      MakeMap(EmptyEntries),
      MakeMap(KeyK :> ValueV),
      MakeMap(KeyK :> ValueC) }

\* the wire form of {"k": "v", "expires": <expires>}
RecordWith(expires) ==
    EncodeBase64(<< 130 >> \o EncodeString(KeyK) \o EncodeString(ValueV.v)
                 \o EncodeString(KeyExpires) \o expires)

Uint32Wire(n) == << 206 >> \o BigEndian(n, 4)

Uint64Wire(n) == << 207 >> \o BigEndian(n, 8)

\* the record whose expiry is unset
UnsetRecord == RecordWith(Uint32Wire(0))

\* the wire form of {"expires": Epoch + 1, "last_access": Epoch - 60}, as a
\* request a minute ago left it
AccessedRecord ==
    EncodeBase64(<< 130 >> \o EncodeString(KeyExpires) \o Uint32Wire(Epoch + 1)
                 \o EncodeString(KeyLastAccess) \o Uint64Wire(Epoch - 60))

StoredRecords ==
    { RecordWith(Uint32Wire(Epoch + 1)),
      AccessedRecord,
      RecordWith(Uint32Wire(Epoch)),
      RecordWith(Uint32Wire(Epoch - 60)),
      UnsetRecord,
      RecordWith(Uint64Wire(Epoch + 1)),
      EncodeBase64(<< 129 >> \o EncodeString(KeyK) \o EncodeString(ValueV.v)),
      RecordWith(<< 192 >>),
      EncodeBase64(<< 192 >>),
      Take(RecordWith(Uint32Wire(Epoch + 1)), 16),
      EncodeBase64(<< 72, 101, 108, 108, 111 >>),
      << 72, 101, 108, 108, 111 >>,
      <<>> }

EmptyCache == [k \in {} |-> <<>>]

\* every record is read under the expiration "2"; under the other settings
\* the cache is empty or holds the record whose expiry Load has to stamp
InitialWorlds ==
    { c \in [ DefaultExpiration : DefaultExpirations,
              cache : { EmptyCache } \cup { SeedId :> r : r \in StoredRecords } ] :
        \/ c.DefaultExpiration = << 50 >>
        \/ c.cache \in { EmptyCache, SeedId :> UnsetRecord } }

DeleteArgs == { NilId, IdOf(<<>>), IdOf(SeedId) }

(***************************************************************************)
(* The state: one Store (its fields and config), the cache, the clock, and *)
(* last, the record of the last call made on the Store: what was called,   *)
(* with which argument, the error it returned, the commands it sent to the *)
(* cache, and the Store, cache and clock it started from.                  *)
(***************************************************************************)
VARIABLES ID, Expires, Data, config, cache, now, last, steps,
          cfg, populated, requests, commands

\* the state of the HTTP middleware: the package variable cfg of config (0
\* is nil, otherwise the Config object it points to), the Config objects
\* that have been populated, the requests being served, and the commands
\* the cache has received from them, in the order it received them
serverVars == << cfg, populated, requests, commands >>

vars == << ID, Expires, Data, config, cache, now, last, steps,
           cfg, populated, requests, commands >>

\* no request is being served
Idle ==
    /\ cfg = 0
    /\ populated = {}
    /\ requests = <<>>
    /\ commands = <<>>

World ==
    [ ID |-> ID, Expires |-> Expires, Data |-> Data, config |-> config,
      cache |-> cache, now |-> now, calls |-> <<>> ]

Snapshot ==
    [ ID |-> ID, Expires |-> Expires, Data |-> Data, cache |-> cache,
      now |-> now ]

\* the last call panicked: the goroutine of the request has unwound and its
\* Store is out of reach; only the next request can follow
Panicked == last.err = ErrPanic

\* steps is the number of steps the run has left
Spend ==
    /\ steps > 0
    /\ steps' = steps - 1

Budget ==
    /\ ~Panicked
    /\ Spend

Called(op, cookie, id, r) ==
    /\ Budget
    /\ ID' = r.w.ID
    /\ Expires' = r.w.Expires
    /\ Data' = r.w.Data
    /\ cache' = r.w.cache
    /\ now' = r.w.now
    /\ config' = config
    /\ last' = [ op |-> op, cookie |-> cookie, id |-> id, err |-> r.err,
                 calls |-> r.w.calls, pre |-> Snapshot ]
    /\ UNCHANGED serverVars

\* NewStore: the Store of a request that has made no call yet
Init ==
    /\ ID = <<>>
    /\ Expires = 0
    /\ Data = NilMap
    /\ \E c \in InitialWorlds :
          /\ config = [ DefaultExpiration |-> c.DefaultExpiration,
                        CookieSecret |-> Secret ]
          /\ cache = c.cache
    /\ now = Epoch
    /\ last = [ op |-> "NewStore", cookie |-> <<>>, id |-> NilId, err |-> "",
                calls |-> <<>>,
                pre |-> [ ID |-> <<>>, Expires |-> 0, Data |-> NilMap,
                          cache |-> EmptyCache, now |-> Epoch ] ]
    /\ steps = MaxSteps
    /\ Idle

\* the next request: NewStore (src/state/store.go:40-43)
NewStore ==
    /\ Spend
    /\ ID' = <<>>
    /\ Expires' = 0
    /\ Data' = NilMap
    /\ last' = [ op |-> "NewStore", cookie |-> <<>>, id |-> NilId, err |-> "",
                 calls |-> <<>>, pre |-> Snapshot ]
    /\ UNCHANGED << config, cache, now >>
    /\ UNCHANGED serverVars

\* the handler replaces the session data: s.Data = sessionData
SetData ==
    \E p \in Payloads :
        /\ Budget
        /\ Data' = p
        /\ last' = [ op |-> "SetData", cookie |-> <<>>, id |-> NilId,
                     err |-> "", calls |-> <<>>, pre |-> Snapshot ]
        /\ UNCHANGED << ID, Expires, config, cache, now >>
        /\ UNCHANGED serverVars

\* a second passes between two calls
Tick ==
    /\ Budget
    /\ now < MaxNow
    /\ now' = now + 1
    /\ last' = [ op |-> "Tick", cookie |-> <<>>, id |-> NilId, err |-> "",
                 calls |-> <<>>, pre |-> Snapshot ]
    /\ UNCHANGED << ID, Expires, Data, config, cache >>
    /\ UNCHANGED serverVars

LoadCall ==
    /\ steps > 0
    /\ ~Panicked
    /\ \E sessionID \in Cookies :
          \E r \in Load(World, sessionID) :
              Called("Load", sessionID, NilId, r)

StoreCall ==
    /\ steps > 0
    /\ ~Panicked
    /\ \E r \in Store(World) : Called("Store", <<>>, NilId, r)

ClearCall ==
    /\ steps > 0
    /\ ~Panicked
    /\ \E r \in Clear(World) : Called("Clear", <<>>, NilId, r)

DeleteCall ==
    /\ steps > 0
    /\ ~Panicked
    /\ \E id \in DeleteArgs :
          \E r \in Delete(World, id) : Called("Delete", <<>>, id, r)

Next ==
    \/ NewStore
    \/ SetData
    \/ Tick
    \/ LoadCall
    \/ StoreCall
    \/ ClearCall
    \/ DeleteCall

Spec == Init /\ [][Next]_vars

\* the record of a session that is still live
LiveRecord == RecordWith(Uint32Wire(Epoch + 1))

\* a service that is configured and holds one live session: the runs from
\* here are longer, and follow that session over several requests
SessionInit ==
    /\ ID = <<>>
    /\ Expires = 0
    /\ Data = NilMap
    /\ config = [ DefaultExpiration |-> << 50 >>, CookieSecret |-> Secret ]
    /\ cache = SeedId :> LiveRecord
    /\ now = Epoch
    /\ last = [ op |-> "NewStore", cookie |-> <<>>, id |-> NilId, err |-> "",
                calls |-> <<>>,
                pre |-> [ ID |-> <<>>, Expires |-> 0, Data |-> NilMap,
                          cache |-> EmptyCache, now |-> Epoch ] ]
    /\ steps = MaxSessionSteps
    /\ Idle

SessionSpec == SessionInit /\ [][Next]_vars

(***************************************************************************)
(* A session from its first Store on: a new Store whose payload the        *)
(* handler has just assigned, an empty cache, and three calls to come      *)
(* (Store, the NewStore of the next request, Load).                        *)
(***************************************************************************)
MaxRoundTripSteps == 3

\* payloads of a handler that sets no expires
RoundTripPayloads ==
    { MakeMap(KeyK :> ValueV),
      MakeMap(KeyK :> Uint("uint16", 123)),
      MakeMap(KeyK :> [ t |-> "map", v |-> (KeyK :> Uint("int8", 1)) ]) }

RoundTripInit ==
    /\ ID = <<>>
    /\ Expires = 0
    /\ Data \in RoundTripPayloads
    /\ config = [ DefaultExpiration |-> << 50 >>, CookieSecret |-> Secret ]
    /\ cache = EmptyCache
    /\ now = Epoch
    /\ last = [ op |-> "SetData", cookie |-> <<>>, id |-> NilId, err |-> "",
                calls |-> <<>>,
                pre |-> [ ID |-> <<>>, Expires |-> 0, Data |-> NilMap,
                          cache |-> EmptyCache, now |-> Epoch ] ]
    /\ steps = MaxRoundTripSteps
    /\ Idle

RoundTripSpec == RoundTripInit /\ [][Next]_vars

(***************************************************************************)
(* The encoding package on its own (src/encoding/encoding.go:11-46): a     *)
(* payload is encoded, wrapped in base64, unwrapped and decoded.  Data is  *)
(* the payload in hand, the text is kept in the cache under SeedId, and    *)
(* last.pre.Data is the payload the run began with.                        *)
(***************************************************************************)
KeyM == << 109 >>

KeySignedIn == << 115, 105, 103, 110, 101, 100, 95, 105, 110 >>

\* strings, integers of every width, nil and a nested map
EncodingValues ==
    { Str(<<>>), Str(<< 118 >>), Str(Rep(120, 40)),
      Uint("uint8", 5), Uint("uint8", 200), Uint("uint16", 5),
      Uint("uint32", 70000), Uint("uint64", 5), Uint("uint64", Epoch),
      Uint("int8", 1), Uint("int8", -3), Uint("int16", -300),
      Uint("int32", 5), Uint("int64", -70000),
      NilValue,
      [t |-> "map", v |-> (KeySignedIn :> Uint("int8", 1))],
      [t |-> "map", v |-> EmptyEntries] }

EncodingPayloads ==
    { NilMap, MakeMap(EmptyEntries) }
    \cup { MakeMap(KeyK :> a) : a \in EncodingValues }
    \cup { MakeMap((KeyK :> a) @@ (KeyM :> b)) :
             a \in EncodingValues, b \in EncodingValues }

EncodingInit ==
    /\ ID = <<>>
    /\ Expires = 0
    /\ Data \in EncodingPayloads
    /\ config = [ DefaultExpiration |-> << 50 >>, CookieSecret |-> Secret ]
    /\ cache = EmptyCache
    /\ now = Epoch
    /\ last = [ op |-> "NewStore", cookie |-> <<>>, id |-> NilId, err |-> "",
                calls |-> <<>>,
                pre |-> [ ID |-> <<>>, Expires |-> 0, Data |-> NilMap,
                          cache |-> EmptyCache, now |-> Epoch ] ]
    /\ steps = 0
    /\ Idle

\* EncodeBase64(EncodeMsgPack(data))
EncodeCall ==
    /\ last.op = "NewStore"
    /\ \E e \in EncodeMsgPack(Data) :
          /\ cache' = IF e.err = "" THEN SeedId :> EncodeBase64(e.val)
                      ELSE cache
          /\ last' = [ op |-> "EncodeMsgPack", cookie |-> <<>>, id |-> NilId,
                       err |-> e.err, calls |-> <<>>, pre |-> Snapshot ]
    /\ UNCHANGED << ID, Expires, Data, config, now, steps >>
    /\ UNCHANGED serverVars

\* DecodeMsgPack(DecodeBase64(text))
DecodeCall ==
    /\ last.op = "EncodeMsgPack"
    /\ last.err = ""
    /\ LET base64Decoded == DecodeBase64(cache[SeedId])
           decoded == DecodeMsgPack(base64Decoded.val)
       IN  /\ Data' = IF base64Decoded.err # "" THEN NilMap ELSE decoded.val
           /\ last' = [ op |-> "DecodeMsgPack", cookie |-> <<>>,
                        id |-> NilId,
                        err |-> IF base64Decoded.err # ""
                                THEN base64Decoded.err ELSE decoded.err,
                        calls |-> <<>>, pre |-> last.pre ]
    /\ UNCHANGED << ID, Expires, config, cache, now, steps >>
    /\ UNCHANGED serverVars

EncodingNext ==
    \/ EncodeCall
    \/ DecodeCall

EncodingSpec == EncodingInit /\ [][EncodingNext]_vars

(***************************************************************************)
(* SessionData and its accessors (src/session/sessiondata.go:9-47).  An    *)
(* accessor returns [err, val]: err is ErrPanic when a type assertion      *)
(* without the ok form meets a value of another type.                      *)
(***************************************************************************)
KeySigninInfo == << 115, 105, 103, 110, 105, 110, 95, 105, 110, 102, 111 >>

KeyAccessToken == << 97, 99, 99, 101, 115, 115, 95, 116, 111, 107, 101, 110 >>

KeyRefreshToken ==
    << 114, 101, 102, 114, 101, 115, 104, 95, 116, 111, 107, 101, 110 >>

\* m[key] of a map[string]interface{} held in an interface value
Field(val, key) == IF key \in DOMAIN val.v THEN val.v[key] ELSE NilValue

\* the string at signin_info.access_token.<key>
TokenString(data, key) ==
    LET signinInfo == MapGet(data, KeySigninInfo)
    IN  IF signinInfo.t # "map" THEN [err |-> ErrPanic, val |-> <<>>]
        ELSE LET accessTokenMap == Field(signinInfo, KeyAccessToken)
             IN  IF accessTokenMap.t # "map"
                 THEN [err |-> ErrPanic, val |-> <<>>]
                 ELSE IF Field(accessTokenMap, key).t # "string"
                 THEN [err |-> ErrPanic, val |-> <<>>]
                 ELSE [err |-> "", val |-> Field(accessTokenMap, key).v]

getAccessToken(data) == TokenString(data, KeyAccessToken)

getRefreshToken(data) == TokenString(data, KeyRefreshToken)

isSignedIn(data) ==
    LET signinInfo == MapGet(data, KeySigninInfo)
    IN  IF signinInfo.t # "map" THEN [err |-> ErrPanic, val |-> FALSE]
        ELSE LET signedInFlag == Field(signinInfo, KeySignedIn)
             IN  [err |-> "",
                  val |-> signedInFlag.t = "int8" /\ signedInFlag.v = 1]

NilToken ==
    [ isNil |-> TRUE, AccessToken |-> <<>>, RefreshToken |-> <<>>,
      Expiry |-> 0 ]

\* every [err, val, w] GetOauth2Token can end with; Expiry is time.Now()
GetOauth2Token(w) ==
    LET signedIn == isSignedIn(w.Data)
        access == getAccessToken(w.Data)
        refresh == getRefreshToken(w.Data)
    IN  IF signedIn.err # ""
        THEN { [err |-> ErrPanic, val |-> NilToken, w |-> w] }
        ELSE IF ~signedIn.val
        THEN { [err |-> "", val |-> NilToken, w |-> w] }
        ELSE IF access.err # "" \/ refresh.err # ""
        THEN { [err |-> ErrPanic, val |-> NilToken, w |-> w] }
        ELSE { [err |-> "",
                val |-> [ isNil |-> FALSE, AccessToken |-> access.val,
                          RefreshToken |-> refresh.val, Expiry |-> t.now ],
                w |-> t.w] : t \in TimeNow(w) }

\* the tokens a signed-in session holds, whole or in part
AccessTokens ==
    { NilValue,
      Str(<< 70 >>),
      [t |-> "map", v |-> (KeyAccessToken :> Str(<< 70 >>))
                          @@ (KeyRefreshToken :> Str(<< 66 >>))],
      [t |-> "map", v |-> (KeyAccessToken :> Str(<< 70 >>))] }

SignedInFlags ==
    { NilValue, Uint("int8", 1), Uint("int8", 0), Uint("int16", 1),
      Uint("uint8", 1), Uint("int64", 1), Str(<< 49 >>) }

\* a map of the entries whose value is not nil
Present(entries) ==
    [k \in { j \in DOMAIN entries : entries[j] # NilValue } |-> entries[k]]

SigninInfos ==
    { NilValue, Str(<< 49 >>) }
    \cup { [t |-> "map",
            v |-> Present((KeySignedIn :> f) @@ (KeyAccessToken :> a))] :
             f \in SignedInFlags, a \in AccessTokens }

SessionPayloads ==
    { NilMap }
    \cup { MakeMap(Present((KeySigninInfo :> i) @@ (KeyExpires :> e))) :
             i \in SigninInfos, e \in { NilValue, Uint("uint32", 12345) } }

AccessorInit ==
    /\ ID = <<>>
    /\ Expires = 0
    /\ Data \in SessionPayloads
    /\ config = [ DefaultExpiration |-> << 50 >>, CookieSecret |-> Secret ]
    /\ cache = EmptyCache
    /\ now = Epoch
    /\ last = [ op |-> "NewStore", cookie |-> <<>>, id |-> NilId, err |-> "",
                calls |-> <<>>,
                pre |-> [ ID |-> <<>>, Expires |-> 0, Data |-> NilMap,
                          cache |-> EmptyCache, now |-> Epoch ] ]
    /\ steps = 0
    /\ Idle

\* sessionData.isSignedIn()
IsSignedInCall ==
    /\ last.op = "NewStore"
    /\ last' = [ op |-> "isSignedIn", cookie |-> <<>>, id |-> NilId,
                 err |-> isSignedIn(Data).err, calls |-> <<>>,
                 pre |-> Snapshot, ret |-> isSignedIn(Data).val ]
    /\ UNCHANGED << ID, Expires, Data, config, cache, now, steps >>
    /\ UNCHANGED serverVars

\* sessionData.GetOauth2Token()
GetOauth2TokenCall ==
    /\ last.op = "NewStore"
    /\ \E r \in GetOauth2Token(World) :
          /\ now' = r.w.now
          /\ last' = [ op |-> "GetOauth2Token", cookie |-> <<>>,
                       id |-> NilId, err |-> r.err, calls |-> <<>>,
                       pre |-> Snapshot, ret |-> r.val ]
    /\ UNCHANGED << ID, Expires, Data, config, cache, steps >>
    /\ UNCHANGED serverVars

AccessorNext ==
    \/ IsSignedInCall
    \/ GetOauth2TokenCall

AccessorSpec == AccessorInit /\ [][AccessorNext]_vars

(***************************************************************************)
(* The HTTP middleware (src/unnamed/part_004:28-67, part_007:29-76) and    *)
(* config.Get (src/config/config.go:20-38).  Every request is served by a  *)
(* goroutine of its own; a step is one statement of the handler, and a call *)
(* of Store.Store is two steps, the second being its one cache command.    *)
(* Store.Load is one step.                                                 *)
(***************************************************************************)
NumRequests == 2

Requests == 1..NumRequests

\* no session cookie, the cookie of the session in the cache, a cookie with
\* the session's ID and another signature, and the cookie of a session the
\* cache holds no record of
ServerCookies ==
    { <<>>, CookieFor(SeedId, Secret), CookieFor(SeedId, << 119 >>),
      CookieFor(OtherId, Secret) }

\* the first request comes without a cookie or with the session's
FirstCookies == { <<>>, CookieFor(SeedId, Secret) }

\* &Config{}: every field is the empty string
ZeroConfig == [ DefaultExpiration |-> <<>>, CookieSecret |-> <<>> ]

\* the fields read through a *Config: those of the environment once the
\* object is populated
ConfigOf(p) == IF p \in populated THEN config ELSE ZeroConfig

\* a request that has entered the handler: its cookie, the locals of the
\* handler (got is cfg := config.Get()), the fields of its Store, and what
\* it has done to the response
Request(cookie) ==
    [ pc |-> "Get", cookie |-> cookie, got |-> 0, sessionID |-> <<>>,
      ID |-> <<>>, Expires |-> 0, Data |-> NilMap, sessionData |-> NilMap,
      encodedData |-> <<>>, status |-> 0, served |-> FALSE,
      stored |-> FALSE, loadErr |-> "", storeErr |-> "",
      cookieSet |-> FALSE, setCookie |-> <<>> ]

\* the Store of request r, with what it shares with the other requests
WorldOf(r) ==
    [ ID |-> requests[r].ID, Expires |-> requests[r].Expires,
      Data |-> requests[r].Data, config |-> ConfigOf(requests[r].got),
      cache |-> cache, now |-> now, calls |-> <<>> ]

At(r, pc) == requests[r].pc = pc

storeVars == << ID, Expires, Data, config, last, steps >>

\* a call made for request r has returned x: the cache, the clock and the
\* commands received are as the call left them
Returned(r, x) ==
    /\ cache' = x.w.cache
    /\ now' = x.w.now
    /\ commands' = commands \o
          [ i \in DOMAIN x.w.calls |->
              [ req |-> r, op |-> x.w.calls[i].op, key |-> x.w.calls[i].key,
                value |-> x.w.calls[i].value,
                expiration |-> x.w.calls[i].expiration,
                err |-> x.w.calls[i].err ] ]

\* the requests are served within the last second of the model's clock; the
\* session in the cache outlives it
ServerRecord == RecordWith(Uint32Wire(MaxNow + 1))

ServerInit ==
    /\ ID = <<>>
    /\ Expires = 0
    /\ Data = NilMap
    /\ config = [ DefaultExpiration |-> << 50 >>, CookieSecret |-> Secret ]
    /\ cache = SeedId :> ServerRecord
    /\ now = MaxNow
    /\ last = [ op |-> "NewStore", cookie |-> <<>>, id |-> NilId, err |-> "",
                calls |-> <<>>,
                pre |-> [ ID |-> <<>>, Expires |-> 0, Data |-> NilMap,
                          cache |-> EmptyCache, now |-> Epoch ] ]
    /\ steps = 0
    /\ cfg = 0
    /\ populated = {}
    /\ requests \in [ Requests -> { Request(c) : c \in ServerCookies } ]
    /\ requests[1].cookie \in FirstCookies
    /\ commands = <<>>

\* config.go:26-28: if cfg != nil { return cfg }
GetCheck ==
    \E r \in Requests :
        /\ At(r, "Get")
        /\ requests' = IF cfg # 0
                       THEN [requests EXCEPT ![r].got = cfg,
                                             ![r].pc = "NewStore"]
                       ELSE [requests EXCEPT ![r].pc = "Alloc"]
        /\ UNCHANGED << cfg, populated, commands, cache, now >>
        /\ UNCHANGED storeVars

\* config.go:30: cfg = &Config{}; the new object is named after the request
GetAlloc ==
    \E r \in Requests :
        /\ At(r, "Alloc")
        /\ cfg' = r
        /\ requests' = [requests EXCEPT ![r].pc = "Gofigure"]
        /\ UNCHANGED << populated, commands, cache, now >>
        /\ UNCHANGED storeVars

\* config.go:32-35: gofigure.Gofigure(cfg) fills the object cfg points to
\* now, or fails and Get returns nil
GetGofigure ==
    \E r \in Requests :
        /\ At(r, "Gofigure")
        /\ \/ /\ populated' = populated \cup { cfg }
              /\ requests' = [requests EXCEPT ![r].pc = "Return"]
           \/ /\ populated' = populated
              /\ requests' = [requests EXCEPT ![r].got = 0,
                                              ![r].pc = "NewStore"]
        /\ UNCHANGED << cfg, commands, cache, now >>
        /\ UNCHANGED storeVars

\* config.go:37: return cfg
GetReturn ==
    \E r \in Requests :
        /\ At(r, "Return")
        /\ requests' = [requests EXCEPT ![r].got = cfg,
                                        ![r].pc = "NewStore"]
        /\ UNCHANGED << cfg, populated, commands, cache, now >>
        /\ UNCHANGED storeVars

\* part_007:35-48: NewCache, NewStore and getSessionIDFromRequest.  A nil
\* cfg is dereferenced.  With the cookie name empty, req.Cookie finds no
\* cookie or the first cookie of the request, by the version of net/http.
HandlerNewStore ==
    \E r \in Requests :
        /\ At(r, "NewStore")
        /\ IF requests[r].got = 0
           THEN requests' = [requests EXCEPT ![r].pc = "Panic"]
           ELSE \E sessionID \in
                    IF requests[r].got \in populated
                    THEN { requests[r].cookie }
                    ELSE { <<>>, requests[r].cookie } :
                    requests' =
                        [requests EXCEPT
                            ![r].sessionID = sessionID,
                            ![r].pc = IF sessionID # <<>> THEN "Load"
                                      ELSE "Serve"]
        /\ UNCHANGED << cfg, populated, commands, cache, now >>
        /\ UNCHANGED storeVars

\* the handler without lines 55-59: Load's error is logged and the request
\* goes on with the Store as Load left it
HandlerLoadLenient ==
    \E r \in Requests :
        /\ At(r, "Load")
        /\ \E x \in Load(WorldOf(r), requests[r].sessionID) :
              /\ Returned(r, x)
              /\ requests' =
                    [requests EXCEPT
                        ![r].ID = x.w.ID,
                        ![r].Expires = x.w.Expires,
                        ![r].Data = x.w.Data,
                        ![r].loadErr = x.err,
                        ![r].sessionData = IF x.err = "" THEN x.w.Data
                                           ELSE @,
                        ![r].pc = IF x.err = ErrPanic THEN "Panic"
                                  ELSE "Serve"]
        /\ UNCHANGED << cfg, populated >>
        /\ UNCHANGED storeVars

\* part_007:51-60: s.Load(sessionID); on an error WriteHeader(500), return
HandlerLoad ==
    \E r \in Requests :
        /\ At(r, "Load")
        /\ \E x \in Load(WorldOf(r), requests[r].sessionID) :
              /\ Returned(r, x)
              /\ requests' =
                    [requests EXCEPT
                        ![r].ID = x.w.ID,
                        ![r].Expires = x.w.Expires,
                        ![r].Data = x.w.Data,
                        ![r].loadErr = x.err,
                        ![r].sessionData = IF x.err = "" THEN x.w.Data
                                           ELSE @,
                        ![r].status = IF x.err \notin { "", ErrPanic }
                                      THEN 500 ELSE @,
                        ![r].pc = IF x.err = "" THEN "Serve"
                                  ELSE IF x.err = ErrPanic THEN "Panic"
                                  ELSE "Done"]
        /\ UNCHANGED << cfg, populated >>
        /\ UNCHANGED storeVars

\* what a downstream handler puts in place of the payload
ServedPayloads == { NilMap, MakeMap(KeyK :> ValueV) }

\* part_007:62-64: h.ServeHTTP(w, req); the downstream handler holds
\* &sessionData and leaves the payload or replaces it
HandlerServe ==
    \E r \in Requests :
        /\ At(r, "Serve")
        /\ \E p \in { requests[r].sessionData } \cup ServedPayloads :
              requests' = [requests EXCEPT ![r].sessionData = p,
                                           ![r].served = TRUE,
                                           ![r].pc = "Store"]
        /\ UNCHANGED << cfg, populated, commands, cache, now >>
        /\ UNCHANGED storeVars

\* part_007:66-69 and store.go:96-105: s.Data = sessionData; s.Store() as
\* far as the encoded record
HandlerStore ==
    \E r \in Requests :
        /\ At(r, "Store")
        /\ \E v \in validateSession([WorldOf(r) EXCEPT
                                        !.Data = requests[r].sessionData]) :
              /\ Returned(r, v)
              /\ \E e \in IF v.err # "" THEN { [err |-> v.err, val |-> <<>>] }
                          ELSE encodeSessionData(v.w) :
                    requests' =
                        [requests EXCEPT
                            ![r].ID = v.w.ID,
                            ![r].Expires = v.w.Expires,
                            ![r].Data = v.w.Data,
                            ![r].stored = TRUE,
                            ![r].storeErr = e.err,
                            ![r].encodedData = e.val,
                            ![r].pc = IF e.err = "" THEN "Set"
                                      ELSE "SetCookie"]
        /\ UNCHANGED << cfg, populated >>
        /\ UNCHANGED storeVars

\* store.go:107-110: s.setSession(encodedData)
HandlerSet ==
    \E r \in Requests :
        /\ At(r, "Set")
        /\ \E x \in setSession(WorldOf(r), requests[r].encodedData) :
              /\ Returned(r, x)
              /\ requests' = [requests EXCEPT ![r].storeErr = x.err,
                                              ![r].pc = "SetCookie"]
        /\ UNCHANGED << cfg, populated >>
        /\ UNCHANGED storeVars

\* part_007:74, 93-99: setSessionIDOnResponse(w, s)
HandlerSetCookie ==
    \E r \in Requests :
        /\ At(r, "SetCookie")
        /\ requests' =
              [requests EXCEPT
                  ![r].cookieSet = TRUE,
                  ![r].setCookie =
                      requests[r].ID \o generateSignature(WorldOf(r)),
                  ![r].pc = "Done"]
        /\ UNCHANGED << cfg, populated, commands, cache, now >>
        /\ UNCHANGED storeVars

ServerNext ==
    \/ GetCheck
    \/ GetAlloc
    \/ GetGofigure
    \/ GetReturn
    \/ HandlerNewStore
    \/ HandlerLoad
    \/ HandlerServe
    \/ HandlerStore
    \/ HandlerSet
    \/ HandlerSetCookie

ServerSpec == ServerInit /\ [][ServerNext]_vars

(***************************************************************************)
(* What the last call did, read off last.                                  *)
(***************************************************************************)
\* the positions, among the commands the last call sent, of the commands op
CallsOf(op) == { i \in DOMAIN last.calls : last.calls[i].op = op }

CookieID(c) == Take(c, signatureStart)

LongEnough(c) == Len(c) >= cookieValueLength

\* the signature part is the signature of the ID part
Signed(c) ==
    /\ LongEnough(c)
    /\ Drop(c, signatureStart)
         = generateSignature([ ID |-> CookieID(c), config |-> config ])

Forged(c) == LongEnough(c) /\ ~Signed(c)

\* no payload, or a payload with no entry
Empty(d) == d.isNil \/ MapLen(d) = 0

Loaded == last.op = "Load"

\* every read of the random source the last call made succeeded
RandomWorked == \A i \in CallsOf("Rand") : last.calls[i].err = ""

\* the cache answered every command of the last call, if only with "key not
\* found", and every read of the random source succeeded
NoFault ==
    /\ RandomWorked
    /\ \A i \in DOMAIN last.calls : last.calls[i].err \in { "", RedisNil }

\* DEFAULT_EXPIRATION is a number
Configured == ParseUint(config.DefaultExpiration).err = ""

\* the last call was Load of a signed cookie, and the one get it sent for the
\* cookie's ID was answered with err
LoadGot(err) ==
    /\ Loaded
    /\ Signed(last.cookie)
    /\ \E i \in CallsOf("Get") :
          /\ last.calls[i].key = CookieID(last.cookie)
          /\ last.calls[i].err = err

(***************************************************************************)
(* Load and the cookie.                                                    *)
(***************************************************************************)
\* C1: after Load of a cookie that is long enough and whose signature part
\* is not the signature of its ID part, no get was sent to the cache for the
\* cookie's ID and the Store holds no payload fetched under that ID,
\* whatever the cache answered to each command.  Stated for the runs in
\* which the random source works.
C1_ForgedIDNeverFetched ==
    (Loaded /\ Forged(last.cookie) /\ RandomWorked) =>
        /\ \A i \in CallsOf("Get") :
              last.calls[i].key # CookieID(last.cookie)
        /\ ~ \E i \in CallsOf("Get") :
                /\ last.calls[i].key = CookieID(last.cookie)
                /\ last.calls[i].err = ""
                /\ ~Data.isNil

\* the breach: the delete Clear sends fails, Clear returns before it replaces
\* the ID, and Load fetches and accepts the record of the cookie's ID
C1_ForgedPayloadHeld ==
    /\ Loaded
    /\ Forged(last.cookie)
    /\ RandomWorked
    /\ last.err = ""
    /\ ID = CookieID(last.cookie)
    /\ \E i \in CallsOf("Get") :
          /\ last.calls[i].key = CookieID(last.cookie)
          /\ last.calls[i].err = ""
    /\ MapGet(Data, KeyK) = ValueV

\* C2: after Load of a cookie shorter than cookieValueLength, the empty
\* cookie included, Load has returned no error (and so has not panicked)
\* and the Store's payload is empty.  Stated for the runs in which no cache
\* command fails and the random source works.
C2_ShortCookieNoError ==
    (Loaded /\ ~LongEnough(last.cookie) /\ NoFault) =>
        /\ last.err = ""
        /\ Empty(Data)

\* Load of the empty cookie returns validateSessionID's error
C2_ShortCookieRefused ==
    /\ Loaded
    /\ last.cookie = <<>>
    /\ NoFault
    /\ last.err = ErrCookieLength

\* C3: after Load of a cookie that is long enough and whose signature part
\* is not the signature of its ID part, Load has returned no error and the
\* Store's payload is empty.  Stated for the runs in which no cache command
\* fails and the random source works.
C3_MismatchNoError ==
    (Loaded /\ Forged(last.cookie) /\ NoFault) =>
        /\ last.err = ""
        /\ Empty(Data)

\* Load looks the regenerated ID up and returns the cache's "key not found"
C3_MismatchRefused ==
    /\ Loaded
    /\ Forged(last.cookie)
    /\ NoFault
    /\ ID # CookieID(last.cookie)
    /\ last.err = RedisNil

\* C4: after Load of a signed cookie whose get the cache answered with
\* "key not found", Load has returned no error and the Store's payload is
\* empty.
C4_MissNoError ==
    LoadGot(RedisNil) =>
        /\ last.err = ""
        /\ Empty(Data)

\* Load returns the cache's "key not found" as its error
C4_MissRefused ==
    /\ LoadGot(RedisNil)
    /\ NoFault
    /\ last.err = RedisNil

\* the record the cache held for the cookie's ID when the last call began,
\* decoded
HeldRecord == decodeSession(last.pre.cache[CookieID(last.cookie)])

\* the last call was Load of a signed cookie whose record the cache
\* returned, and the record's expires is set and not after the time Load
\* began at
LoadedLapsed ==
    /\ LoadGot("")
    /\ CookieID(last.cookie) \in DOMAIN last.pre.cache
    /\ HeldRecord.err = ""
    /\ ~HeldRecord.val.isNil
    /\ MapGet(HeldRecord.val, KeyExpires).t = "uint32"
    /\ MapGet(HeldRecord.val, KeyExpires).v # 0
    /\ MapGet(HeldRecord.val, KeyExpires).v <= last.pre.now

\* C5: after Load of a signed cookie whose cached record has expires set and
\* at or before the current time, Load has returned no error and the Store's
\* payload is empty.
C5_LapsedNoError ==
    LoadedLapsed =>
        /\ last.err = ""
        /\ Empty(Data)

\* Load of a record that expires at the very second returns an error
C5_LapsedRefused ==
    /\ LoadedLapsed
    /\ NoFault
    /\ MapGet(HeldRecord.val, KeyExpires).v = now
    /\ last.err = ErrExpired
    /\ Data.isNil

\* C6: whenever Load has returned no error, the Store's payload is not nil.
\* Stated for the Loads of signed cookies in which no cache command fails
\* and the random source works.
C6_LoadedPayloadNotNil ==
    (Loaded /\ Signed(last.cookie) /\ NoFault /\ last.err = "") =>
        ~Data.isNil

\* Load of a record that decodes to nil returns no error and a nil payload
C6_LoadedNil ==
    /\ LoadGot("")
    /\ NoFault
    /\ last.err = ""
    /\ Data.isNil

(***************************************************************************)
(* Load and the cache's answers.                                           *)
(***************************************************************************)
\* the gets of the last call that the cache answered with an error other
\* than "key not found"
FailedGets == { i \in CallsOf("Get") : last.calls[i].err \in IOErrors }

\* C7: if the get Load sent failed with an error other than "key not
\* found", Load has returned exactly that error, the get was the only get
\* and the last command Load sent, and no payload has been put in the
\* Store: its payload is nil, or the one it held before the call.
C7_GetErrorPropagated ==
    (Loaded /\ FailedGets # {}) =>
        /\ \A i \in FailedGets : last.err = last.calls[i].err
        /\ Cardinality(CallsOf("Get")) = 1
        /\ FailedGets = { Len(last.calls) }
        /\ Data \in { NilMap, last.pre.Data }
        /\ last.pre.Data.isNil => Data.isNil

\* Load of a signed cookie whose record is in the cache, with the get
\* failing
C7_GetFailed ==
    /\ LoadGot("i/o timeout")
    /\ CookieID(last.cookie) \in DOMAIN last.pre.cache
    /\ last.err = "i/o timeout"
    /\ Data.isNil

\* the error DecodeBase64 or, after it, DecodeMsgPack returns for s
DecodeError(s) ==
    IF DecodeBase64(s).err # "" THEN DecodeBase64(s).err
    ELSE DecodeMsgPack(DecodeBase64(s).val).err

\* the gets of the last call that returned a string that does not decode
UndecodableGets ==
    { i \in CallsOf("Get") :
        /\ last.calls[i].err = ""
        /\ DecodeError(last.calls[i].value) # "" }

\* C8: if the string Load fetched fails DecodeBase64 or DecodeMsgPack (as
\* the empty string does), Load has returned the decoder's error and the
\* Store's payload is nil, with nothing of what was decoded before the
\* failure.
C8_DecodeErrorPropagated ==
    (Loaded /\ UndecodableGets # {}) =>
        /\ \A i \in UndecodableGets :
              last.err = DecodeError(last.calls[i].value)
        /\ Data.isNil

\* Load of a record cut short after its first entry: DecodeMsgPack fails
\* having decoded that entry
C8_DecodeFailedMidway ==
    /\ Loaded
    /\ \E i \in UndecodableGets :
          /\ DecodeBase64(last.calls[i].value).err = ""
          /\ MapLen(DecodeMsgPack(DecodeBase64(last.calls[i].value).val).val) > 0
    /\ last.err = "unexpected EOF"
    /\ Data.isNil

(***************************************************************************)
(* Store.Store().                                                          *)
(***************************************************************************)
\* Store.Store() was called on a Store with a payload of at least one
\* entry, no ID and no expiry, under a DEFAULT_EXPIRATION that is a number
StoredAfresh ==
    /\ last.op = "Store"
    /\ ~Empty(last.pre.Data)
    /\ last.pre.ID = <<>>
    /\ last.pre.Expires = 0
    /\ Configured

\* the payload the call began with, stamped with the time setupExpiration
\* read
Stamped == MapPut(last.pre.Data, KeyLastAccess, Uint("uint64", now))

\* the Store after a Store.Store() that got its ID: Expires is the time read
\* plus the default period, the payload is the old one plus last_access
StampedAfresh ==
    /\ ID # <<>>
    /\ now \in { last.pre.now, last.pre.now + 1 }
    /\ Expires = now + ParseUint(config.DefaultExpiration).val
    /\ Data = Stamped

\* the Store and the cache's log after a Store.Store() that got its ID and
\* encoded its payload: one set was sent, under the new ID, of the base64 of
\* a msgpack encoding of the stamped payload
StoredStamped ==
    /\ StampedAfresh
    /\ Cardinality(CallsOf("Set")) = 1
    /\ \A i \in CallsOf("Set") :
          /\ last.calls[i].key = ID
          /\ last.calls[i].value
               \in { EncodeBase64(b) : b \in EncodeMap(Stamped) }

\* C9 as the specification states it: Store.Store() on a Store with a
\* non-empty payload, no ID and Expires = 0, under a default expiration that
\* parses, returns no error, with a new ID, Expires = now + d,
\* last_access = now, and exactly one set, keyed by the new ID, of the
\* encoding of the payload with last_access.
C9_StoreAfresh ==
    StoredAfresh =>
        /\ last.err = ""
        /\ StoredStamped

\* C9, amended: the same holds when the random source and the cache's set
\* succeed and the payload can be encoded.  When the set fails, everything
\* but the error holds and Store returns the set's error; when the payload
\* cannot be encoded, the Store is stamped, no set is sent and Store returns
\* the encoder's error; when the random source fails, Store returns its
\* error, having changed nothing and sent nothing to the cache.
C9_StoreAfreshUnlessFault ==
    StoredAfresh =>
        IF RandomWorked /\ EncodeMap(Stamped) = {}
        THEN /\ StampedAfresh
             /\ last.err = ErrEncode
             /\ CallsOf("Set") = {}
             /\ cache = last.pre.cache
        ELSE IF RandomWorked
        THEN /\ StoredStamped
             /\ \A i \in CallsOf("Set") : last.err = last.calls[i].err
             /\ cache = IF last.err = ""
                        THEN (ID :> last.calls[Len(last.calls)].value)
                                 @@ last.pre.cache
                        ELSE last.pre.cache
        ELSE /\ last.err = ErrRand
             /\ CallsOf("Set") = {}
             /\ << ID, Expires, Data, cache >>
                  = << last.pre.ID, last.pre.Expires, last.pre.Data,
                       last.pre.cache >>

\* Store.Store() of a first payload succeeded: the cache holds it under the
\* new ID
C9_StoredAfresh ==
    /\ StoredAfresh
    /\ last.err = ""
    /\ ID \in DOMAIN cache
    /\ cache[ID] \in { EncodeBase64(b) : b \in EncodeMap(Stamped) }
    /\ Expires = now + 2

\* C10: after Store.Store() called with a nil payload or a payload with no
\* entry, Store has returned no error and has sent no set to the cache.
\* Stated for the runs in which DEFAULT_EXPIRATION is a number, no cache
\* command fails and the random source works.
C10_EmptyStoreNoOp ==
    (last.op = "Store" /\ Empty(last.pre.Data) /\ Configured /\ NoFault) =>
        /\ last.err = ""
        /\ CallsOf("Set") = {}

\* Store.Store() on a Store that has no payload returns validateSession's
\* error
C10_NilStoreRefused ==
    /\ last.op = "Store"
    /\ last.pre.Data.isNil
    /\ Configured
    /\ NoFault
    /\ last.err = ErrNoData

(***************************************************************************)
(* What is written to the cache.                                           *)
(***************************************************************************)
\* the payloads that the sets of the last call carried, decoded
SetPayloads == { decodeSession(last.calls[i].value) : i \in CallsOf("Set") }

\* C11: whatever calls of Load, Store, Clear and Delete have been made, no
\* set sent to the cache carries a payload that is nil or has no entry.
C11_NoEmptyPayloadSet ==
    \A p \in SetPayloads : p.err = "" /\ ~Empty(p.val)

\* a request loads the live session, its handler leaves the payload with no
\* entry, and Store.Store() writes the empty map under the session's ID
C11_EmptyPayloadSet ==
    /\ last.op = "Store"
    /\ NoFault
    /\ last.err = ""
    /\ ~last.pre.Data.isNil
    /\ MapLen(last.pre.Data) = 0
    /\ last.pre.Expires # 0
    /\ ID = SeedId
    /\ cache[ID] = EncodeBase64(<< 128 >>)

(***************************************************************************)
(* Store.Clear() and Store.Delete().                                       *)
(***************************************************************************)
Cleared == last.op = "Clear"

\* the deletes of the last call that the cache answered with an error
FailedDels == { i \in CallsOf("Del") : last.calls[i].err # "" }

\* C12: whenever Store.Clear() has returned no error, a delete was sent to
\* the cache for the ID the Store held before the call, the payload is empty
\* and the ID is not the one held before the call.
C12_ClearedAndRenewed ==
    (Cleared /\ last.err = "") =>
        /\ \E i \in CallsOf("Del") : last.calls[i].key = last.pre.ID
        /\ Empty(Data)
        /\ ID # last.pre.ID

\* Store.Clear() on a loaded session returns no error having deleted the
\* record, while the read of the random source failed: the Store keeps the
\* ID of the record it deleted
C12_ClearedNotRenewed ==
    /\ Cleared
    /\ last.err = ""
    /\ FailedDels = {}
    /\ ~RandomWorked
    /\ last.pre.ID = SeedId
    /\ ID = SeedId
    /\ SeedId \in DOMAIN last.pre.cache
    /\ SeedId \notin DOMAIN cache

C14_ClearErrorLeavesStore ==
    (Cleared /\ FailedDels # {}) =>
        /\ \A i \in FailedDels : last.err = last.calls[i].err
        /\ Len(last.calls) = 1
        /\ ID = last.pre.ID
        /\ << Expires, Data, cache >>
             = << last.pre.Expires, last.pre.Data, last.pre.cache >>

\* Store.Clear() on a Store with an ID returned the refused connection's
\* error and kept the ID
C14_ClearRefused ==
    /\ Cleared
    /\ last.err = "dial tcp: connection refused"
    /\ FailedDels # {}
    /\ last.pre.ID # <<>>
    /\ ID = last.pre.ID

\* the key Store.Delete(id) is to delete, for the Store the last call began
\* with
DeleteKey ==
    IF ~last.id.isNil /\ Len(last.id.s) > 0 THEN last.id.s ELSE last.pre.ID

\* C15: Store.Delete(id) has sent exactly one command, a delete, for *id when
\* id is neither nil nor empty and for the Store's ID otherwise; it has
\* returned what the cache answered: no error when the delete succeeded, the
\* very error when it failed.  The Store's fields are untouched.
C15_DeleteOneKey ==
    last.op = "Delete" =>
        /\ Len(last.calls) = 1
        /\ last.calls[1].op = "Del"
        /\ last.calls[1].key = DeleteKey
        /\ last.err = last.calls[1].err
        /\ last.err = "" =>
              cache = [ k \in (DOMAIN last.pre.cache) \ { DeleteKey } |->
                          last.pre.cache[k] ]
        /\ last.err # "" => cache = last.pre.cache
        /\ << ID, Expires, Data >>
             = << last.pre.ID, last.pre.Expires, last.pre.Data >>

\* Store.Delete(&id) with the ID of another session than the Store's own
\* removed that session's record
C15_DeletedGivenID ==
    /\ last.op = "Delete"
    /\ last.id = IdOf(SeedId)
    /\ last.pre.ID \notin { <<>>, SeedId }
    /\ SeedId \in DOMAIN last.pre.cache
    /\ last.calls[1].key = SeedId
    /\ last.err = ""
    /\ SeedId \notin DOMAIN cache

(***************************************************************************)
(* Store.Store() and its failures.                                         *)
(***************************************************************************)
Stored == last.op = "Store"

\* the sets of the last call that the cache answered with an error
FailedSets == { i \in CallsOf("Set") : last.calls[i].err # "" }

\* validateSession passed in the last call: the ID was there or could be
\* generated, the expiry was there or could be computed, and there was a
\* payload
Validated ==
    /\ RandomWorked
    /\ last.pre.Expires # 0 \/ Configured
    /\ ~last.pre.Data.isNil

\* C16: when the set Store.Store() sent failed, Store has returned exactly
\* the cache's error, and that set is the only set and the last command it
\* sent; when the payload passed validateSession and cannot be encoded,
\* Store has returned the encoder's error and has sent no set.
C16_StoreFailuresReturned ==
    Stored =>
        /\ \A i \in FailedSets :
              /\ last.err = last.calls[i].err
              /\ CallsOf("Set") = { i }
              /\ i = Len(last.calls)
        /\ (Validated /\ EncodeMap(Data) = {}) =>
              /\ last.err = ErrEncode
              /\ CallsOf("Set") = {}
              /\ cache = last.pre.cache

\* Store.Store() of a payload failed at the cache: the set timed out and the
\* cache holds nothing new
C16_SetFailed ==
    /\ Stored
    /\ Validated
    /\ ~Empty(last.pre.Data)
    /\ \E i \in FailedSets : last.calls[i].err = "i/o timeout"
    /\ last.err = "i/o timeout"
    /\ cache = last.pre.cache

\* C17: when Store.Store() is called with Expires = 0 under a
\* DEFAULT_EXPIRATION that is missing or is no unsigned integer, Store has
\* returned an error (strconv's, when an ID was there or could be generated)
\* and has sent no set: the cache is as it was.
C17_NoExpirationNoStore ==
    (Stored /\ last.pre.Expires = 0 /\ ~Configured) =>
        /\ last.err # ""
        /\ RandomWorked => last.err = ErrSyntax
        /\ CallsOf("Set") = {}
        /\ cache = last.pre.cache

\* Store.Store() of a first payload under DEFAULT_EXPIRATION "1h" returned
\* strconv's error, with an ID generated and nothing written
C17_UnparsableRefused ==
    /\ Stored
    /\ config.DefaultExpiration = << 49, 104 >>
    /\ ~Empty(last.pre.Data)
    /\ last.pre.ID = <<>>
    /\ last.err = ErrSyntax
    /\ ID # <<>>
    /\ Expires = 0
    /\ cache = last.pre.cache

(***************************************************************************)
(* Load and the expiry of the record.                                      *)
(***************************************************************************)
\* the last call was Load of a signed cookie whose record the cache
\* returned, and the record's expires is the uint32 0
LoadedUnset ==
    /\ LoadGot("")
    /\ CookieID(last.cookie) \in DOMAIN last.pre.cache
    /\ HeldRecord.err = ""
    /\ ~HeldRecord.val.isNil
    /\ MapGet(HeldRecord.val, KeyExpires) = Uint("uint32", 0)

DefaultPeriod == ParseUint(config.DefaultExpiration).val

\* the times setupExpiration can have read in the last call
StampTimes == { t \in { last.pre.now, last.pre.now + 1 } : t <= now }

LoadedNoExpiry ==
    /\ LoadGot("")
    /\ CookieID(last.cookie) \in DOMAIN last.pre.cache
    /\ HeldRecord.err = ""
    /\ ~HeldRecord.val.isNil
    /\ MapGet(HeldRecord.val, KeyExpires) = NilValue

\* C19: after Load of a record whose expires is absent or nil, Load has not
\* panicked: it has returned no error and Expires is a fresh expiry, not 0.
\* Stated for DEFAULT_EXPIRATION "2".
C19_NoExpiryNoCrash ==
    (LoadedNoExpiry /\ config.DefaultExpiration = << 50 >>) =>
        /\ last.err = ""
        /\ Expires # 0

\* Load of the record {"k": "v", "expires": nil} panicked in
\* validateExpiration, the Store holding the decoded payload, not validated
C19_NilExpiryPanicked ==
    /\ LoadedNoExpiry
    /\ KeyExpires \in DOMAIN HeldRecord.val.m
    /\ config.DefaultExpiration = << 50 >>
    /\ NoFault
    /\ Panicked
    /\ Expires = 0
    /\ Data = HeldRecord.val

(***************************************************************************)
(* Load and what its caller sees.                                          *)
(***************************************************************************)
\* the Store and its surroundings as they were when the last call began
PreWorld ==
    [ ID |-> last.pre.ID, Expires |-> last.pre.Expires,
      Data |-> last.pre.Data, config |-> config, cache |-> last.pre.cache,
      now |-> last.pre.now, calls |-> <<>> ]

\* in w, cookie c is signed and the cache holds for its ID a record that
\* has lapsed
Lapsed(w, c) ==
    /\ Signed(c)
    /\ CookieID(c) \in DOMAIN w.cache
    /\ LET held == decodeSession(w.cache[CookieID(c)])
       IN  /\ held.err = ""
           /\ ~held.val.isNil
           /\ MapGet(held.val, KeyExpires).t = "uint32"
           /\ MapGet(held.val, KeyExpires).v # 0
           /\ MapGet(held.val, KeyExpires).v <= w.now

\* in w, cookie c is one of the three cases: too short, forged, lapsed
NonFatal(w, c) == ~LongEnough(c) \/ Forged(c) \/ Lapsed(w, c)

\* the results of Load(c) in w in which the cache answered every command
\* and the random source every read
FaultFree(w, c) ==
    { r \in Load(w, c) :
        \A i \in DOMAIN r.w.calls : r.w.calls[i].err \in { "", RedisNil } }

\* C20: after Load of a cookie that is too short, forged or lapsed, the
\* returned error and the payload are the ones Load would have given, from
\* the same Store and cache, for any other cookie of these three kinds.
C20_NonFatalCasesAlike ==
    (Loaded /\ NoFault /\ NonFatal(PreWorld, last.cookie)) =>
        \A c \in Cookies :
            NonFatal(PreWorld, c) =>
                \A r \in FaultFree(PreWorld, c) :
                    /\ r.err = last.err
                    /\ r.w.Data = Data

\* Load of a too-short cookie returned the length error, where Load of a
\* forged cookie would have returned "key not found" and Load of a lapsed
\* one "Store has expired", the payload nil in all three
C20_ThreeErrors ==
    /\ Loaded
    /\ NoFault
    /\ ~LongEnough(last.cookie)
    /\ last.err = ErrCookieLength
    /\ Data.isNil
    /\ \E b \in ForgedCookies :
          /\ FaultFree(PreWorld, b) # {}
          /\ \A r \in FaultFree(PreWorld, b) :
                r.err = RedisNil /\ r.w.Data.isNil
    /\ \E c \in ValidCookies :
          /\ Lapsed(PreWorld, c)
          /\ FaultFree(PreWorld, c) # {}
          /\ \A r \in FaultFree(PreWorld, c) :
                r.err = ErrExpired /\ r.w.Data.isNil

(***************************************************************************)
(* Store and the cache's own expiry.                                       *)
(***************************************************************************)
\* C23: every Set a call has sent to the cache carried expiration 0.
C23_NoCacheTTL ==
    \A i \in CallsOf("Set") : last.calls[i].expiration = 0

\* a Store of a payload whose Expires is set and ahead of the clock has
\* written the record, with expiration 0
C23_StoredWithoutTTL ==
    /\ Stored
    /\ last.err = ""
    /\ Expires > now
    /\ \E i \in CallsOf("Set") :
          /\ last.calls[i].err = ""
          /\ last.calls[i].expiration = 0
          /\ cache[last.calls[i].key] = last.calls[i].value

(***************************************************************************)
(* Concurrent requests.                                                    *)
(***************************************************************************)
\* the commands of kind op the cache has received
Received(op) == { i \in DOMAIN commands : commands[i].op = op }

\* the writes of key the cache has applied
Applied(key) ==
    { i \in Received("Set") \cup Received("Del") :
        commands[i].key = key /\ commands[i].err = "" }

\* request r has come back from setSession
PastSet(r) ==
    /\ requests[r].pc \in { "SetCookie", "Done" }
    /\ requests[r].encodedData # <<>>

\* the wire forms of payload d
Encodings(d) == { EncodeBase64(b) : b \in EncodeMap(d) }

\* C21: a request whose Store has encoded its payload has sent the Set for
\* its ID whatever the cache held, and got an error only if the cache
\* answered the Set with one; and the cache holds for a key the value of
\* the Set applied last to it, which is the encoded payload of the request
\* that sent it and of no other.
C21_LastWriteWins ==
    /\ \A r \in Requests :
          PastSet(r) =>
              \E i \in Received("Set") :
                  /\ commands[i].req = r
                  /\ commands[i].key = requests[r].ID
                  /\ commands[i].value = requests[r].encodedData
                  /\ commands[i].err = requests[r].storeErr
    /\ \A i \in Received("Set") :
          (/\ i \in Applied(commands[i].key)
           /\ \A j \in Applied(commands[i].key) : j <= i) =>
              /\ cache[commands[i].key] = commands[i].value
              /\ cache[commands[i].key]
                   \in Encodings(requests[commands[i].req].Data)

\* two requests of the same session have stored different payloads, both
\* without error, and the cache holds the one that was set second
C21_SecondSetHeld ==
    \E i, j \in Received("Set") :
        /\ i < j
        /\ commands[i].req = 2
        /\ commands[j].req = 1
        /\ commands[i].key = SeedId
        /\ commands[j].key = SeedId
        /\ requests[1].pc = "Done" /\ requests[1].storeErr = ""
        /\ requests[2].pc = "Done" /\ requests[2].storeErr = ""
        /\ commands[i].value # commands[j].value
        /\ cache[SeedId] = commands[j].value
        /\ decodeSession(cache[SeedId]).val.m = (KeyK :> ValueV)

\* config.Get has returned nil to request r: gofigure failed
GofigureFailed(r) ==
    /\ requests[r].got = 0
    /\ requests[r].pc \in { "NewStore", "Panic" }

\* C22: a request that config.Get has just returned a Config to holds a
\* populated one.  Stated for the runs in which gofigure never fails.
C22_NoUnpopulatedConfig ==
    (\A r \in Requests : ~GofigureFailed(r)) =>
        \A r \in Requests :
            (requests[r].pc = "NewStore" /\ requests[r].got # 0) =>
                requests[r].got \in populated

\* request 1 has allocated its Config and not yet populated it, and
\* config.Get has returned that Config to request 2
C22_UnpopulatedConfigReturned ==
    /\ requests[1].pc = "Gofigure"
    /\ cfg = 1
    /\ 1 \notin populated
    /\ requests[2].pc = "NewStore"
    /\ requests[2].got = 1

\* request 2 presented the cookie of the live session and, reading the
\* secret from the unpopulated Config, had the session's record deleted
C22_SessionDeleted ==
    /\ \A r \in Requests : ~GofigureFailed(r)
    /\ requests[2].cookie = CookieFor(SeedId, Secret)
    /\ \E i \in Received("Del") :
          /\ commands[i].req = 2
          /\ commands[i].key = SeedId
          /\ commands[i].err = ""
    /\ SeedId \notin DOMAIN cache

(***************************************************************************)
(* The cookie value.                                                       *)
(***************************************************************************)
\* secrets a deployment may be configured with
Secrets == { Secret, << 119 >>, <<>> }

\* the Store as it is, configured with secret
WithSecret(secret) == [World EXCEPT !.config.CookieSecret = secret]

\* C24: the cookie value made of a 28-character ID and the signature
\* generateSignature gave for it passes the validation of Load under the
\* same secret: for every ID and secret, from the state the Store is in,
\* validateSessionID and extractAndValidateSessionIDParts accept it, sending
\* nothing to the cache and leaving the ID in the Store; and a Load of such a
\* cookie has begun by fetching the record of that ID.
C24_IssuedCookieValidates ==
    /\ \A id \in PoolIds \cup { OtherId } : \A secret \in Secrets :
          LET c == CookieFor(id, secret)
          IN  /\ Len(id) = signatureStart
              /\ validateSessionID(WithSecret(secret), c)
                   = { Ret(WithSecret(secret), "") }
              /\ extractAndValidateSessionIDParts(WithSecret(secret), c)
                   = { Ret([WithSecret(secret) EXCEPT !.ID = id], "") }
    /\ (Loaded /\ last.cookie \in ValidCookies) =>
          /\ last.calls # <<>>
          /\ last.calls[1].op = "Get"
          /\ last.calls[1].key = CookieID(last.cookie)
          /\ last.err # ErrCookieLength

\* Load of the cookie issued for the session in the cache validated it,
\* fetched the record and accepted it
C24_IssuedCookieLoaded ==
    /\ Loaded
    /\ last.cookie = SeedId \o generateSignature(World)
    /\ last.pre.ID = <<>>
    /\ ID = SeedId
    /\ last.err = ""
    /\ Len(last.calls) = 1
    /\ last.calls[1].op = "Get"
    /\ ~Data.isNil

\* s is a base64 string with no padding character
Unpadded(s) == \A i \in DOMAIN s : s[i] # PadChar

\* C25: idOctets is a multiple of 3 and signatureStart is its base64
\* length, 28; every ID regenerateID produces, from the state the Store is
\* in or in the course of the last call, has 28 characters and no padding;
\* every signature has 27 characters; and such an ID followed by its
\* signature has cookieValueLength = 55 characters.
C25_CookieValueLength ==
    /\ idOctets % 3 = 0
    /\ signatureStart * 3 = idOctets * 4
    /\ signatureStart = 28
    /\ cookieValueLength = 55
    /\ Len(generateSignature(World)) = 27
    /\ \A r \in regenerateID(World) :
          r.err = "" =>
              /\ Len(r.w.ID) = 28
              /\ Unpadded(r.w.ID)
              /\ Len(generateSignature(r.w)) = 27
              /\ Len(r.w.ID \o generateSignature(r.w)) = cookieValueLength
    /\ \A i \in CallsOf("Rand") :
          last.calls[i].err = "" =>
              /\ Len(last.calls[i].value) = 28
              /\ Unpadded(last.calls[i].value)
              /\ \A secret \in Secrets :
                    Len(CookieFor(last.calls[i].value, secret))
                      = cookieValueLength

\* Clear has given the Store a new ID, and the cookie value for it has 55
\* characters
C25_RegeneratedCookie ==
    /\ Cleared
    /\ last.err = ""
    /\ \E i \in CallsOf("Rand") :
          /\ last.calls[i].err = ""
          /\ last.calls[i].value = ID
    /\ ID # last.pre.ID
    /\ Len(ID) = 28
    /\ Len(ID \o generateSignature(World)) = 55

(***************************************************************************)
(* The encodings.                                                          *)
(***************************************************************************)
\* C26: a payload that was encoded with EncodeMsgPack, wrapped with
\* EncodeBase64, unwrapped with DecodeBase64 and decoded with DecodeMsgPack
\* has come back without an error and equal to the payload encoded, the Go
\* types of its values included.
C26_RoundTrip ==
    /\ last.op = "EncodeMsgPack" => last.err = ""
    /\ last.op = "DecodeMsgPack" =>
          /\ last.err = ""
          /\ Data = last.pre.Data

\* a payload holding a 64-bit integer of small value and a nested map has
\* made the round trip
C26_NestedRoundTrip ==
    /\ last.op = "DecodeMsgPack"
    /\ last.err = ""
    /\ MapGet(Data, KeyK) = Uint("uint64", 5)
    /\ MapGet(Data, KeyM) = [t |-> "map", v |-> (KeySignedIn :> Uint("int8", 1))]
    /\ Data = last.pre.Data

(***************************************************************************)
(* The middleware and Load's errors.                                       *)
(***************************************************************************)
\* Load has returned an error to the handler of request r
LoadFailed(r) == requests[r].loadErr \notin { "", ErrPanic }

\* C27: a request whose Load returned an error has been answered with status
\* 500 and is over: the downstream handler was not invoked, Store.Store was
\* not called and no session cookie was set on the response.
C27_LoadErrorFailsRequest ==
    \A r \in Requests :
        LoadFailed(r) =>
            /\ requests[r].sessionID # <<>>
            /\ requests[r].status = 500
            /\ requests[r].pc = "Done"
            /\ ~requests[r].served
            /\ ~requests[r].stored
            /\ ~requests[r].cookieSet
            /\ \A i \in Received("Set") : commands[i].req # r

\* request 1 presented the cookie of the session, the cache did not answer
\* the Get, and the request was failed; request 2 was served meanwhile
C27_FailedOnCacheError ==
    /\ requests[1].cookie = CookieFor(SeedId, Secret)
    /\ requests[1].loadErr \in IOErrors
    /\ requests[1].status = 500
    /\ requests[1].pc = "Done"
    /\ ~requests[1].served
    /\ ~requests[1].stored
    /\ ~requests[1].cookieSet
    /\ requests[2].pc = "Done"
    /\ requests[2].cookieSet

(***************************************************************************)
(* The accessors of the session data.                                      *)
(***************************************************************************)
\* signin_info.signed_in of the payload is the 8-bit integer 1
FlagSet(d) ==
    /\ MapGet(d, KeySigninInfo).t = "map"
    /\ Field(MapGet(d, KeySigninInfo), KeySignedIn) = Uint("int8", 1)

\* C28: GetOauth2Token and isSignedIn have not crashed; GetOauth2Token has
\* returned a token exactly when signin_info.signed_in is the 8-bit integer
\* 1, with the access token, refresh token and expiry of the session, and
\* nil otherwise; isSignedIn has returned false for a session with no
\* signin_info.
C28_TokenIffSignedIn ==
    /\ last.op = "isSignedIn" =>
          /\ last.err = ""
          /\ last.ret = FlagSet(Data)
    /\ last.op = "GetOauth2Token" =>
          /\ last.err = ""
          /\ last.ret.isNil = ~FlagSet(Data)
          /\ FlagSet(Data) =>
                /\ last.ret.AccessToken = getAccessToken(Data).val
                /\ last.ret.RefreshToken = getRefreshToken(Data).val
                /\ last.ret.Expiry = MapGet(Data, KeyExpires).v

\* isSignedIn, called on the empty session map, has panicked
C28_EmptySessionPanicked ==
    /\ last.op = "isSignedIn"
    /\ Data = MakeMap(EmptyEntries)
    /\ last.err = ErrPanic

(***************************************************************************)
(* Forged cookies and the cache.                                           *)
(***************************************************************************)
\* C29: after Load of a cookie whose signature does not match, no Del and no
\* Set was sent for the ID taken from the cookie, and the cache holds for
\* that ID what it held before.
C29_ForgedCookieLeavesCache ==
    (Loaded /\ Forged(last.cookie) /\ NoFault) =>
        /\ \A i \in CallsOf("Del") \cup CallsOf("Set") :
              last.calls[i].key # CookieID(last.cookie)
        /\ (CookieID(last.cookie) \in DOMAIN last.pre.cache) =>
              /\ CookieID(last.cookie) \in DOMAIN cache
              /\ cache[CookieID(last.cookie)]
                   = last.pre.cache[CookieID(last.cookie)]

\* Load of the live session's ID with a signature made with another secret
\* has deleted the session's record
C29_ForgedCookieDeletedRecord ==
    /\ Loaded
    /\ last.cookie = CookieFor(SeedId, << 119 >>)
    /\ Forged(last.cookie)
    /\ NoFault
    /\ last.pre.cache = (SeedId :> RecordWith(Uint32Wire(Epoch + 1)))
    /\ \E i \in CallsOf("Del") :
          /\ last.calls[i].key = SeedId
          /\ last.calls[i].err = ""
    /\ SeedId \notin DOMAIN cache

(***************************************************************************)
(* Store, then Load.                                                       *)
(***************************************************************************)
\* the last call was Load, by a new Store, of the signed cookie of a record
\* the cache returned, and the record decodes to a payload with no expires
\* that was stamped less than the default period ago
LoadedStored ==
    /\ LoadGot("")
    /\ last.pre.ID = <<>>
    /\ CookieID(last.cookie) \in DOMAIN last.pre.cache
    /\ HeldRecord.err = ""
    /\ ~HeldRecord.val.isNil
    /\ KeyExpires \notin DOMAIN HeldRecord.val.m
    /\ MapGet(HeldRecord.val, KeyLastAccess).t = "uint64"
    /\ MapGet(HeldRecord.val, KeyLastAccess).v + DefaultPeriod > now

\* C30: after Load, in a new Store and before the stamped expiry, of the
\* cookie of a record that a Store without an expires field persisted, Load
\* has returned no error and the Store holds the payload persisted.
C30_StoreThenLoad ==
    (LoadedStored /\ NoFault) =>
        /\ last.err = ""
        /\ Data = HeldRecord.val

\* the next request's Load of the record a first Store has just persisted
\* has panicked
C30_LoadOfStoredPanicked ==
    /\ LoadedStored
    /\ NoFault
    /\ MapGet(HeldRecord.val, KeyK) = ValueV
    /\ MapGet(HeldRecord.val, KeyLastAccess) = Uint("uint64", Epoch)
    /\ Panicked

(***************************************************************************)
(* Store.Store() without a payload.                                        *)
(***************************************************************************)
\* C33: after Store.Store() called on a Store whose payload is nil, the ID
\* and Expires of the Store are those held before the call.
C33_NilStoreChangesNothing ==
    (Stored /\ last.pre.Data.isNil /\ Configured /\ NoFault) =>
        /\ ID = last.pre.ID
        /\ Expires = last.pre.Expires

\* Store.Store() on a new Store without a payload has returned
\* validateSession's error, after generating an ID and stamping the expiry
C33_NilStoreStamped ==
    /\ Stored
    /\ last.pre.Data.isNil
    /\ last.pre.ID = <<>>
    /\ last.pre.Expires = 0
    /\ Configured
    /\ NoFault
    /\ last.err = ErrNoData
    /\ Len(ID) = signatureStart
    /\ Expires = now + DefaultPeriod
    /\ CallsOf("Set") = {}

(***************************************************************************)
(* Load, then Store of the payload as loaded.                              *)
(***************************************************************************)
\* the last call was Load of a signed cookie and returned no error, and the
\* record the cache returned decodes to a payload whose expires is a uint32
LoadedSession ==
    /\ LoadGot("")
    /\ last.err = ""
    /\ CookieID(last.cookie) \in DOMAIN last.pre.cache
    /\ HeldRecord.err = ""
    /\ ~HeldRecord.val.isNil
    /\ MapGet(HeldRecord.val, KeyExpires).t = "uint32"

\* the record now held under the Store's ID, decoded
WrittenRecord == decodeSession(cache'[ID'])

\* the step is Store.Store(), and the cache and the random source answer it
StoreStep == last'.op = "Store" /\ NoFault'

\* C34 as the specification states it: when Load has accepted a session and
\* the next call is Store.Store(), the Store keeps the cookie's ID, the
\* cache then holds under it a record that decodes to the payload of the
\* record loaded, and Expires is then the expires of the record loaded.
C34_LoadThenStoreKeepsRecord ==
    [][ (LoadedSession /\ StoreStep) =>
            /\ last'.err = ""
            /\ ID' = CookieID(last.cookie)
            /\ ID' \in DOMAIN cache'
            /\ WrittenRecord.err = ""
            /\ WrittenRecord.val = HeldRecord.val
            /\ Expires' = MapGet(HeldRecord.val, KeyExpires).v ]_vars

\* C34, for the records whose expires is set: when Load has accepted a
\* session whose expires is not 0 and the next call is Store.Store(), Store
\* returns no error after one set under the cookie's ID, the cache then
\* holds under it a record that decodes to the payload of the record loaded
\* (last_access included), and Expires is unchanged and is the expires of
\* the record loaded.
C34_LoadThenStoreKeepsSetExpiry ==
    [][ (/\ LoadedSession
         /\ MapGet(HeldRecord.val, KeyExpires).v # 0
         /\ StoreStep) =>
            /\ last'.err = ""
            /\ ID' = CookieID(last.cookie)
            /\ ID' \in DOMAIN cache'
            /\ WrittenRecord.err = ""
            /\ WrittenRecord.val = HeldRecord.val
            /\ Expires' = Expires
            /\ Expires' = MapGet(HeldRecord.val, KeyExpires).v
            /\ \A i \in DOMAIN last'.calls :
                  last'.calls[i].op = "Set" => last'.calls[i].key = ID ]_vars

\* the record the cache held under the Store's ID when the last call began,
\* decoded
OwnRecord == decodeSession(last.pre.cache[last.pre.ID])

\* Store.Store() has written back a payload held as it was loaded, a second
\* after its last_access and before its expires
C34_WroteBackLoaded ==
    /\ Stored
    /\ last.err = ""
    /\ NoFault
    /\ last.pre.ID \in DOMAIN last.pre.cache
    /\ OwnRecord.err = ""
    /\ OwnRecord.val = last.pre.Data
    /\ MapGet(last.pre.Data, KeyExpires).t = "uint32"
    /\ MapGet(last.pre.Data, KeyExpires).v = last.pre.Expires
    /\ MapGet(last.pre.Data, KeyLastAccess).t = "uint64"
    /\ MapGet(last.pre.Data, KeyLastAccess).v < last.pre.now
    /\ MapGet(decodeSession(cache[ID]).val, KeyLastAccess)
         = MapGet(last.pre.Data, KeyLastAccess)
    /\ last.pre.Expires > now
    /\ ID = last.pre.ID
    /\ Expires = last.pre.Expires
    /\ decodeSession(cache[ID]).val = last.pre.Data

(***************************************************************************)
(* Load of an unset expiry under a DEFAULT_EXPIRATION that is no number.   *)
(***************************************************************************)
\* C35: after Load of a record whose expires is 0, under a
\* DEFAULT_EXPIRATION that is missing or does not parse, Load has returned
\* the parse error and not "Store has expired".
C35_UnparsableDefaultReported ==
    (LoadedUnset /\ ~Configured /\ NoFault) =>
        /\ last.err = ParseUint(config.DefaultExpiration).err
        /\ last.err # ErrExpired

\* Load of a record whose expires is 0, with no DEFAULT_EXPIRATION, has
\* returned "Store has expired", Expires still 0 and the payload dropped
C35_UnsetReportedExpired ==
    /\ LoadedUnset
    /\ config.DefaultExpiration = <<>>
    /\ NoFault
    /\ last.err = ErrExpired
    /\ Expires = 0
    /\ Data.isNil

(***************************************************************************)
(* Load and the width of expires.                                          *)
(***************************************************************************)
UnsignedTypes == { "uint16", "uint32", "uint64" }

\* the last call was Load of a signed cookie whose record the cache
\* returned, and the record's expires is an unsigned integer that is set
LoadedUnsigned ==
    /\ LoadGot("")
    /\ CookieID(last.cookie) \in DOMAIN last.pre.cache
    /\ HeldRecord.err = ""
    /\ ~HeldRecord.val.isNil
    /\ MapGet(HeldRecord.val, KeyExpires).t \in UnsignedTypes
    /\ MapGet(HeldRecord.val, KeyExpires).v # 0

\* C36: after Load of a record whose expires is an unsigned integer of any
\* width, Load has not panicked and has applied the expiry check to the
\* value: Expires is the value, and Load has returned "Store has expired"
\* exactly when the value is not after the current time.
C36_AnyWidthExpiryChecked ==
    (LoadedUnsigned /\ NoFault) =>
        /\ ~Panicked
        /\ Expires = MapGet(HeldRecord.val, KeyExpires).v
        /\ (last.err = ErrExpired) <=> (Expires <= now)
        /\ last.err \in { "", ErrExpired }

\* Load of a record whose expires is a 64-bit unsigned integer in the future
\* has panicked
C36_Uint64ExpiryPanicked ==
    /\ LoadedUnsigned
    /\ NoFault
    /\ MapGet(HeldRecord.val, KeyExpires) = Uint("uint64", Epoch + 1)
    /\ now = Epoch
    /\ Panicked

(***************************************************************************)
(* Load of a record that decodes to no payload.                            *)
(***************************************************************************)
\* the last call was Load of a signed cookie whose record the cache
\* returned, and the record decodes without error to a nil payload
LoadedNilPayload ==
    /\ LoadGot("")
    /\ CookieID(last.cookie) \in DOMAIN last.pre.cache
    /\ HeldRecord.err = ""
    /\ HeldRecord.val.isNil

\* C37: after Load of a record that decodes without error to a nil payload,
\* whatever the cache answered, a delete was sent for the cookie's ID, the
\* Store's ID is a new one that differs from the cookie's ID, the payload is
\* empty and Load has returned no error.  Stated for the runs in which the
\* random source works.
C37_NilPayloadFullReset ==
    (LoadedNilPayload /\ RandomWorked) =>
        /\ \E i \in CallsOf("Del") : last.calls[i].key = CookieID(last.cookie)
        /\ Len(ID) = signatureStart
        /\ ID # CookieID(last.cookie)
        /\ Empty(Data)
        /\ last.err = ""

\* Load of a record that decodes to a nil payload, the delete failing, has
\* returned no error with the Store still holding the cookie's ID and the
\* record still in the cache
C37_NilPayloadKeptID ==
    /\ LoadedNilPayload
    /\ RandomWorked
    /\ \E i \in CallsOf("Del") :
          /\ last.calls[i].key = CookieID(last.cookie)
          /\ last.calls[i].err \in IOErrors
    /\ last.err = ""
    /\ ID = CookieID(last.cookie)
    /\ Data.isNil
    /\ CookieID(last.cookie) \in DOMAIN cache

(***************************************************************************)
(* The expiry stamped and the clock.                                       *)
(***************************************************************************)
\* the last call has stamped an expiry without error: Store.Store() on a
\* Store whose Expires was 0 and whose ID was there or could be generated,
\* or Load of a record whose expires is 0, under a DEFAULT_EXPIRATION that
\* is a number
StampedExpiry ==
    /\ Configured
    /\ \/ Stored /\ last.pre.Expires = 0 /\ RandomWorked
       \/ LoadedUnset

\* C38: whenever Store.Store() or Load has stamped an expiry, under any
\* DEFAULT_EXPIRATION that parses as a uint64, Expires is later than the
\* time the call began at.
C38_StampedAfterNow ==
    StampedExpiry =>
        /\ ~LeqUint64(Expires, last.pre.now)
        /\ \E t \in StampTimes : Expires = t + DefaultPeriod

\* Store.Store() under the largest uint64 as DEFAULT_EXPIRATION has stamped
\* the second before the current time and has persisted the session
C38_StampedInThePast ==
    /\ StampedExpiry
    /\ Stored
    /\ config.DefaultExpiration = MaxExpiration
    /\ NoFault
    /\ last.err = ""
    /\ now = last.pre.now
    /\ Expires = now - 1
    /\ ID \in DOMAIN cache

(***************************************************************************)
(* Delete and the loaded session.                                          *)
(***************************************************************************)
\* C39: after Store.Delete, whatever it returned, the Store's ID, payload
\* and Expires are those held before the call, and every record the cache
\* held under another key than the one to delete is still there, unchanged.
C39_DeleteKeepsSession ==
    last.op = "Delete" =>
        /\ ID = last.pre.ID
        /\ Data = last.pre.Data
        /\ Expires = last.pre.Expires
        /\ \A k \in DOMAIN last.pre.cache :
              k # DeleteKey => /\ k \in DOMAIN cache
                               /\ cache[k] = last.pre.cache[k]

\* Store.Delete(&id) of another session's record, by a Store that holds a
\* persisted session of its own, has removed that record alone and left the
\* Store as it was
C39_DeletedOtherKept ==
    /\ last.op = "Delete"
    /\ last.err = ""
    /\ last.id = IdOf(SeedId)
    /\ SeedId \in DOMAIN last.pre.cache
    /\ SeedId \notin DOMAIN cache
    /\ ~Data.isNil
    /\ Expires # 0
    /\ ID # SeedId
    /\ ID \in DOMAIN cache
    /\ cache[ID] = last.pre.cache[ID]

(***************************************************************************)
(* config.Get after a load that failed.                                    *)
(***************************************************************************)
\* a load of the configuration has failed and none is under way: the
\* package variable points to a Config that is not populated, and no
\* request is between the allocation and the return of config.Get
LoadHasFailed ==
    /\ cfg # 0
    /\ cfg \notin populated
    /\ \A q \in Requests : requests[q].pc \notin { "Alloc", "Gofigure", "Return" }

\* C40: a call of config.Get that begins after a load has failed, and
\* before any load succeeds, loads again or returns nil: it does not return
\* the Config that was allocated and not populated.
C40_NilUntilLoaded ==
    [][ \A r \in Requests :
          (LoadHasFailed /\ At(r, "Get") /\ ~At(r, "Get")') =>
              \/ requests'[r].pc = "Alloc"
              \/ requests'[r].pc = "NewStore" /\ requests'[r].got = 0 ]_vars

\* the load of request 1 has failed, config.Get has returned nil to it, and
\* config.Get has returned to request 2 the Config that request 1 left
\* allocated and not populated
C40_EmptyConfigAfterFailure ==
    /\ LoadHasFailed
    /\ cfg = 1
    /\ GofigureFailed(1)
    /\ requests[2].pc = "NewStore"
    /\ requests[2].got = 1

(***************************************************************************)
(* A record deleted while another request holds its session.               *)
(***************************************************************************)
\* the cache has applied, in this order, a get of key for request r, a
\* delete of key for another request, and a set of key for request r
Recreated(r, key) ==
    \E g \in Received("Get"), d \in Received("Del"), s \in Received("Set") :
        /\ g < d /\ d < s
        /\ commands[g].key = key /\ commands[g].req = r /\ commands[g].err = ""
        /\ commands[d].key = key /\ commands[d].req # r /\ commands[d].err = ""
        /\ commands[s].key = key /\ commands[s].req = r /\ commands[s].err = ""

\* C31: no request that loaded a session before another request deleted its
\* record has written a record under the session's ID after the deletion.
C31_DeletedStaysDeleted ==
    \A r \in Requests : \A c \in DOMAIN commands :
        ~Recreated(r, commands[c].key)

\* request 1 loaded the live session, request 2 then had its record
\* deleted, and the Store() of request 1 has put the record back
C31_RecordRecreated ==
    /\ Recreated(1, SeedId)
    /\ requests[1].pc = "Done"
    /\ requests[1].storeErr = ""
    /\ requests[2].pc = "Done"
    /\ SeedId \in DOMAIN cache

(***************************************************************************)
(* The cookie of the previous response.                                    *)
(***************************************************************************)
\* the cache and the random source have answered every command so far, if
\* only with "key not found"
Healthy == \A i \in DOMAIN commands : commands[i].err \in { "", RedisNil }

\* request r is about to load the cookie that the response of request q,
\* which is over, has set; both read the populated Config
PresentsCookieOf(r, q) ==
    /\ r # q
    /\ requests[q].pc = "Done"
    /\ requests[q].cookieSet
    /\ requests[q].got \in populated
    /\ requests[r].got \in populated
    /\ At(r, "Load")
    /\ requests[r].sessionID = requests[q].setCookie

\* C32: with a healthy cache, a request that presents the cookie set by the
\* response before it is not answered with status 500, nor does it crash:
\* its Load returns no error and the request goes on to the handler
\* downstream.
C32_OwnCookieAccepted ==
    [][ \A r, q \in Requests :
          (PresentsCookieOf(r, q) /\ ~At(r, "Load")' /\ Healthy') =>
              /\ requests'[r].status # 500
              /\ requests'[r].loadErr = ""
              /\ requests'[r].pc = "Serve" ]_vars

\* request 1 came without a cookie and stored no session data; its response
\* set the cookie of the ID generated; request 2 presented that cookie and
\* was answered with status 500, the cache holding no record under the ID
C32_OwnCookieRefused ==
    /\ Healthy
    /\ requests[1].cookie = <<>>
    /\ requests[1].pc = "Done"
    /\ requests[1].sessionData.isNil
    /\ requests[1].storeErr = ErrNoData
    /\ requests[1].cookieSet
    /\ requests[1].got \in populated
    /\ requests[2].got \in populated
    /\ requests[2].cookie = requests[1].setCookie
    /\ requests[2].sessionID = requests[2].cookie
    /\ requests[2].loadErr = RedisNil
    /\ requests[2].status = 500
    /\ requests[2].pc = "Done"
    /\ ~requests[2].served
    /\ \E i, j \in DOMAIN commands :
          /\ i < j
          /\ commands[i].req = 1 /\ commands[i].op = "Rand"
          /\ commands[j].req = 2 /\ commands[j].op = "Get"

=============================================================================
